---- MODULE Spec2Model ----
(***************************************************************************)
(* Model of the climate-migration projection pipeline.                     *)
(*                                                                         *)
(* Part 1: src/preprocessing/analysis/population_forecasting.py, main().   *)
(* The script reads a county table, maps every county to a climate region, *)
(* aggregates the 2010 population per region, turns the regional share     *)
(* table of Fan et al. into 2065 regional populations for five scenarios   *)
(* and distributes every regional population over the region's counties.   *)
(*                                                                         *)
(* Numbers.  pandas computes in IEEE doubles; the model computes the same  *)
(* expressions over exact rationals <<numerator, denominator>> and applies *)
(* the conversions of the code (round(2), astype(int)) to the exact value. *)
(* A double may differ from the exact value in its last bits, which can    *)
(* matter only where the exact value is itself an integer or a tie: there  *)
(* astype(int) of the double can be one less than the exact integer.       *)
(*                                                                         *)
(* Part 2: src/preprocessing/analysis/indicator_forecasting.py, main():    *)
(* the 2023 indicator rows of every county are scaled with the county's    *)
(* population change of each scenario, the derived metrics are added and    *)
(* the projected indices are computed (specification ForecastSpec).        *)
(*                                                                         *)
(* Part 3: src/preprocessing/analysis/socio_economic_index.py, main():     *)
(* min-max normalisation, category scores, composite indices under four    *)
(* weighting profiles and their rankings (specification IndexSpec).        *)
(*                                                                         *)
(* The three scripts are separate programs.  Each specification runs one   *)
(* of them and keeps the variables of the other two at their empty value.  *)
(***************************************************************************)
EXTENDS Integers, Sequences, FiniteSets, TLC

VARIABLES
    pc,                                 \* next statement group of main()
    qf_2065_regional_population_shares, \* the scenario share table (hundredths of a percent)
    us_county_data,                     \* rows read so far: STATE_NAME, POPULATION_2010
    CLIMATE_REGION,                     \* column us_county_data["CLIMATE_REGION"]
    climate_region_populations,         \* region -> column -> integer
    climate_region_shares,              \* region -> percent, rounded to 2 decimals
    climate_effect_on_pop_shares,       \* column -> region -> relative effect
    alternate_scenario_5_pop_shares,    \* column -> region -> share / 100
    PERCENTAGE_OF_REGIONAL_POPULATION,  \* column of us_county_data
    us_county_population_projections,   \* per row: column -> integer
    output_file,                        \* rows of county_population_projections.csv
    \* indicator_forecasting.py
    forecast_pc,                        \* next statement of main()
    forecast_files,                     \* CSV file name -> rows
    merged_df,                          \* result of load_and_merge_data()
    filtered_df,                        \* result of prepare_filtered_data()
    pop_combined,                       \* result of process_population_data()
    all_counties_2065_combined,         \* scenario rows of every county
    results_df,                         \* result of calculate_indices()
    \* socio_economic_index.py
    index_pc,                           \* next statement of main()
    index_files,                        \* CSV file name -> rows
    index_merged_df,                    \* main.merged_df
    normalized_df,                      \* result of normalize_data()
    index_results_df,                   \* main.results_df
    final_df,                           \* identity, score and index columns
    rankings_df,                        \* final_df and one rank column per index
    \* download_raw_data.py
    download_pc,                        \* position of download_all_data()
    network,                            \* whether a request reaches the API
    stat_series,                        \* geography -> what dc.get_stat_series returns
    raw_files,                          \* <<dataset, year>> -> the CSV file under data/raw
    dataset_thread,                     \* dataset -> state of its _download_dataset future
    year_task,                          \* year -> future of _download_single_dataset_year
    existing_files,                     \* years of the Data Commons files found by glob
    all_data,                           \* year -> entries appended by the worker threads
    geo_worker                          \* geography -> future of _fetch_datacommons_for_geo

population_vars ==
    <<pc, qf_2065_regional_population_shares, us_county_data, CLIMATE_REGION,
      climate_region_populations, climate_region_shares,
      climate_effect_on_pop_shares, alternate_scenario_5_pop_shares,
      PERCENTAGE_OF_REGIONAL_POPULATION, us_county_population_projections,
      output_file>>

forecast_vars ==
    <<forecast_pc, forecast_files, merged_df, filtered_df, pop_combined,
      all_counties_2065_combined, results_df>>

index_vars ==
    <<index_pc, index_files, index_merged_df, normalized_df, index_results_df,
      final_df, rankings_df>>

download_vars ==
    <<download_pc, network, stat_series, raw_files, dataset_thread, year_task,
      existing_files, all_data, geo_worker>>

vars == <<population_vars, forecast_vars, index_vars, download_vars>>

\* indicator_forecasting.py is not running
ForecastNotStarted ==
    /\ forecast_pc = "not started"
    /\ forecast_files = <<>>
    /\ merged_df = <<>>
    /\ filtered_df = <<>>
    /\ pop_combined = <<>>
    /\ all_counties_2065_combined = <<>>
    /\ results_df = <<>>

\* download_raw_data.py is not running
DownloadNotStarted ==
    /\ download_pc = "not started"
    /\ network = "up"
    /\ stat_series = <<>>
    /\ raw_files = <<>>
    /\ dataset_thread = <<>>
    /\ year_task = <<>>
    /\ existing_files = {}
    /\ all_data = <<>>
    /\ geo_worker = <<>>

\* socio_economic_index.py is not running
IndexNotStarted ==
    /\ index_pc = "not started"
    /\ index_files = <<>>
    /\ index_merged_df = <<>>
    /\ normalized_df = <<>>
    /\ index_results_df = <<>>
    /\ final_df = <<>>
    /\ rankings_df = <<>>

----------------------------------------------------------------------------
(* Bounds of the model *)

MaxCounties == 5
MaxPop == 3
MaxForecastCounties == 2
MaxIndexRows == 3
MaxLevel == 2
MaxYears == 2
MaxGeos == 2

(* Program constants *)

CENSUS_POP_2065 == 366207000

\* a missing region label (float NaN in an object column)
NaN == "NaN"

----------------------------------------------------------------------------
(* Exact rational arithmetic standing for the float operations of pandas *)

Abs(x) == IF x < 0 THEN -x ELSE x

Sign(x) == IF x < 0 THEN -1 ELSE 1

RECURSIVE GCD(_, _)
GCD(a, b) == IF b = 0 THEN a ELSE GCD(b, a % b)

Norm(q) ==
    LET g == GCD(Abs(q[1]), Abs(q[2]))
        s == Sign(q[2])
    IN  <<s * (q[1] \div g), s * (q[2] \div g)>>

Rat(n) == <<n, 1>>

RAdd(a, b) == Norm(<<a[1] * b[2] + b[1] * a[2], a[2] * b[2]>>)

RSub(a, b) == Norm(<<a[1] * b[2] - b[1] * a[2], a[2] * b[2]>>)

RMul(a, b) == Norm(<<a[1] * b[1], a[2] * b[2]>>)

RDiv(a, b) == RMul(a, <<b[2], b[1]>>)

RLess(a, b) == a[1] * b[2] < b[1] * a[2]

\* trunc(k * n / d) for k >= 0, n >= 0, d > 0, without forming k * n
TruncMulDivNat(k, n, d) == (k \div d) * n + ((k % d) * n) \div d

\* astype(int) of k * q: truncation toward zero
TruncMul(k, q) == Sign(k) * Sign(q[1]) * TruncMulDivNat(Abs(k), Abs(q[1]), q[2])

\* nearest integer of n / d (d > 0), ties to the even neighbour
RoundHalfEven(n, d) ==
    LET a == Abs(n)
        f == a \div d
        r == a % d
        u == IF 2 * r > d \/ (2 * r = d /\ f % 2 = 1) THEN f + 1 ELSE f
    IN  Sign(n) * u

\* Series.round(2)
Round2(q) == Norm(<<RoundHalfEven(q[1] * 100, q[2]), 100>>)

RECURSIVE SumOver(_, _)
SumOver(S, f) ==
    IF S = {} THEN 0
    ELSE LET x == CHOOSE y \in S : TRUE IN f[x] + SumOver(S \ {x}, f)

RECURSIVE RSumOver(_, _)
RSumOver(S, f) ==
    IF S = {} THEN Rat(0)
    ELSE LET x == CHOOSE y \in S : TRUE IN RAdd(f[x], RSumOver(S \ {x}, f))

----------------------------------------------------------------------------
(* State names and climate regions *)

\* A state name is a record: the name and the letter case it is written in.
Name(s) == [name |-> s, form |-> "Title"]

\* a missing STATE_NAME (no row of state_names.csv matched in the left merge)
NoName == [name |-> "", form |-> "NaN"]

\* str.lower(): a missing value stays missing
Lower(s) == IF s = NoName THEN NoName ELSE [name |-> s.name, form |-> "lower"]

Regions == {"Northeast", "South", "Midwest", "West", "California"}

climate_regions ==
    [Northeast |-> {"Pennsylvania", "New Jersey", "New York", "Connecticut",
                    "Rhode Island", "Massachusetts", "New Hampshire", "Vermont",
                    "Maine"},
     South |-> {"District of Columbia", "Maryland", "Delaware", "Virginia",
                "West Virginia", "Kentucky", "North Carolina", "South Carolina",
                "Tennessee", "Alabama", "Georgia", "Florida", "Arkansas",
                "Mississippi", "Louisiana", "Oklahoma", "Texas"},
     Midwest |-> {"Montana", "Wyoming", "North Dakota", "South Dakota", "Nebraska",
                  "Kansas", "Minnesota", "Iowa", "Missouri", "Wisconsin",
                  "Illinois", "Michigan", "Indiana", "Ohio"},
     West |-> {"Washington", "Oregon", "Idaho", "Nevada", "Utah", "Colorado",
               "Arizona", "New Mexico"},
     California |-> {"California"}]

\* The order in which the dict comprehension visits the regions
RegionOrder == <<"Northeast", "South", "Midwest", "West", "California">>

\* {state.lower(): region for region, states in ... for state in states}:
\* a later entry with the same key replaces an earlier one
StateClimateRegionsOf(cr) ==
    LET keys == UNION {{Lower(Name(s)) : s \in cr[r]} : r \in DOMAIN cr}
        last(k) == CHOOSE i \in 1..Len(RegionOrder) :
                       /\ k \in {Lower(Name(s)) : s \in cr[RegionOrder[i]]}
                       /\ \A j \in (i + 1)..Len(RegionOrder) :
                              k \notin {Lower(Name(s)) : s \in cr[RegionOrder[j]]}
    IN  [k \in keys |-> RegionOrder[last(k)]]

state_climate_regions == StateClimateRegionsOf(climate_regions)

\* variant: the lookup key is not lower-cased
MapClimateRegion_CaseSensitive(state_name) ==
    IF state_name \in DOMAIN state_climate_regions
    THEN state_climate_regions[state_name] ELSE NaN

\* Series.str.lower().map(state_climate_regions) on one value
MapClimateRegion(state_name) ==
    LET key == Lower(state_name)
    IN  IF key \in DOMAIN state_climate_regions
        THEN state_climate_regions[key] ELSE NaN

----------------------------------------------------------------------------
(* The scenario share table, in hundredths of a percent *)

\* Table 5 of Fan et al. as written in the script
ShippedShares ==
    [Scenario_1 |-> [Northeast |-> 1248, Midwest |-> 1410, South |-> 4623,
                     West |-> 1372, California |-> 1347],
     Scenario_3 |-> [Northeast |-> 1505, Midwest |-> 2133, South |-> 4153,
                     West |-> 878, California |-> 1331],
     Scenario_5 |-> [Northeast |-> 1642, Midwest |-> 2035, South |-> 3818,
                     West |-> 1007, California |-> 1498]]

\* A second table of the same shape: every column sums to 100, the Northeast
\* has baseline 20 and climate share 25, and the Midwest loses more than half
\* of its baseline share under the climate scenario
SteepShares ==
    [Scenario_1 |-> [Northeast |-> 2000, Midwest |-> 2000, South |-> 2000,
                     West |-> 2000, California |-> 2000],
     Scenario_3 |-> [Northeast |-> 2000, Midwest |-> 3000, South |-> 3000,
                     West |-> 1000, California |-> 1000],
     Scenario_5 |-> [Northeast |-> 2500, Midwest |-> 1000, South |-> 3500,
                     West |-> 1500, California |-> 1500]]

ShareTables == {ShippedShares, SteepShares}

\* qf_2065_regional_population_shares[col][r] as a float: a percentage
QfShare(col, r) == Norm(<<qf_2065_regional_population_shares[col][r], 100>>)

----------------------------------------------------------------------------
(* Rows of the county file *)

\* STATE_NAME values a row may carry, in the order of their state FIPS codes
InputNames ==
    <<Name("Alaska"), Name("California"),
      [name |-> "California", form |-> "UPPER"], Name("Nevada"),
      Name("New York"), Name("Ohio"), Name("Texas")>>

Pops == {1, MaxPop}

NameRank(n) == CHOOSE i \in 1..Len(InputNames) : InputNames[i] = n

\* Rows are keyed by COUNTY_FIPS and no statement of main() depends on the
\* position of a row, so the files are enumerated in one canonical row order.
RowLeq(a, b) ==
    \/ NameRank(a.STATE_NAME) < NameRank(b.STATE_NAME)
    \/ /\ a.STATE_NAME = b.STATE_NAME
       /\ a.POPULATION_2010 <= b.POPULATION_2010

Rows == DOMAIN us_county_data

\* the groups of groupby(by="CLIMATE_REGION"): rows without a label are dropped
GroupKeys == {CLIMATE_REGION[i] : i \in DOMAIN CLIMATE_REGION} \ {NaN}

RowsOf(r) == {i \in DOMAIN CLIMATE_REGION : CLIMATE_REGION[i] = r}

----------------------------------------------------------------------------
Init ==
    /\ pc = "read"
    /\ qf_2065_regional_population_shares \in ShareTables
    /\ us_county_data = <<>>
    /\ CLIMATE_REGION = <<>>
    /\ climate_region_populations = <<>>
    /\ climate_region_shares = <<>>
    /\ climate_effect_on_pop_shares = <<>>
    /\ alternate_scenario_5_pop_shares = <<>>
    /\ PERCENTAGE_OF_REGIONAL_POPULATION = <<>>
    /\ us_county_population_projections = <<>>
    /\ output_file = <<>>
    /\ ForecastNotStarted
    /\ IndexNotStarted
    /\ DownloadNotStarted

\* pd.read_csv and the merge with state_names: one more row of the county table
ReadCounty(state_name, population) ==
    LET row == [STATE_NAME |-> state_name, POPULATION_2010 |-> population]
    IN  /\ pc = "read"
        /\ Len(us_county_data) < MaxCounties
        /\ IF us_county_data = <<>> THEN TRUE
           ELSE RowLeq(us_county_data[Len(us_county_data)], row)
        /\ us_county_data' = Append(us_county_data, row)
        /\ UNCHANGED <<forecast_vars, index_vars, download_vars, pc,
                       qf_2065_regional_population_shares, CLIMATE_REGION,
                       climate_region_populations, climate_region_shares,
                       climate_effect_on_pop_shares, alternate_scenario_5_pop_shares,
                       PERCENTAGE_OF_REGIONAL_POPULATION,
                       us_county_population_projections, output_file>>

\* us_county_data["CLIMATE_REGION"] = STATE_NAME.str.lower().map(...)
MapClimateRegions ==
    /\ pc = "read"
    /\ us_county_data # <<>>
    /\ CLIMATE_REGION' = [i \in Rows |-> MapClimateRegion(us_county_data[i].STATE_NAME)]
    /\ pc' = "aggregate"
    /\ UNCHANGED <<forecast_vars, index_vars, download_vars,
                   qf_2065_regional_population_shares, us_county_data,
                   climate_region_populations, climate_region_shares,
                   climate_effect_on_pop_shares, alternate_scenario_5_pop_shares,
                   PERCENTAGE_OF_REGIONAL_POPULATION,
                   us_county_population_projections, output_file>>

\* groupby(by="CLIMATE_REGION").aggregate("sum") of one group
RegionPopulation2010(r) ==
    SumOver(RowsOf(r), [i \in Rows |-> us_county_data[i].POPULATION_2010])

AggregateRegionPopulations ==
    /\ pc = "aggregate"
    /\ climate_region_populations' =
           [r \in GroupKeys |-> ("POPULATION_2010" :> RegionPopulation2010(r))]
    /\ pc' = "shares"
    /\ UNCHANGED <<forecast_vars, index_vars, download_vars,
                   qf_2065_regional_population_shares, us_county_data, CLIMATE_REGION,
                   climate_region_shares, climate_effect_on_pop_shares,
                   alternate_scenario_5_pop_shares, PERCENTAGE_OF_REGIONAL_POPULATION,
                   us_county_population_projections, output_file>>

\* variant: the third decimal is cut off instead of rounded
RegionalShare_Truncated(population, total) ==
    Norm(<<(population * 10000) \div total, 100>>)

\* POPULATION_2010.divide(total).multiply(100).round(2) of one region
RegionalShare(population, total) ==
    Round2(RMul(RDiv(Rat(population), Rat(total)), Rat(100)))

CalculateRegionalShares ==
    LET pop == [r \in DOMAIN climate_region_populations |->
                    climate_region_populations[r]["POPULATION_2010"]]
        total == SumOver(DOMAIN pop, pop)
    IN  /\ pc = "shares"
        /\ climate_region_shares' =
               [r \in DOMAIN pop |-> RegionalShare(pop[r], total)]
        /\ pc' = "scenario13"
        /\ UNCHANGED <<forecast_vars, index_vars, download_vars,
                       qf_2065_regional_population_shares, us_county_data,
                       CLIMATE_REGION, climate_region_populations,
                       climate_effect_on_pop_shares, alternate_scenario_5_pop_shares,
                       PERCENTAGE_OF_REGIONAL_POPULATION,
                       us_county_population_projections, output_file>>

\* variant: a fractional population is rounded up to the next integer
ShareToPopulation_RoundedUp(share) ==
    LET q == RDiv(share, Rat(100))
        t == TruncMul(CENSUS_POP_2065, q)
        whole == (((CENSUS_POP_2065 % q[2]) * Abs(q[1])) % q[2]) = 0
    IN  IF whole \/ q[1] < 0 THEN t ELSE t + 1

\* share.divide(100).multiply(CENSUS_POP_2065).astype(int)
ShareToPopulation(share) == TruncMul(CENSUS_POP_2065, RDiv(share, Rat(100)))

\* climate_region_populations["POPULATION_2065_S1"] = ..., ["POPULATION_2065_S3"] = ...
ProjectScenario1And3 ==
    /\ pc = "scenario13"
    /\ climate_region_populations' =
           [r \in DOMAIN climate_region_populations |->
               climate_region_populations[r]
               @@ ("POPULATION_2065_S1" :> ShareToPopulation(QfShare("Scenario_1", r)))
               @@ ("POPULATION_2065_S3" :> ShareToPopulation(QfShare("Scenario_3", r)))]
    /\ pc' = "effects"
    /\ UNCHANGED <<forecast_vars, index_vars, download_vars,
                   qf_2065_regional_population_shares, us_county_data, CLIMATE_REGION,
                   climate_region_shares, climate_effect_on_pop_shares,
                   alternate_scenario_5_pop_shares, PERCENTAGE_OF_REGIONAL_POPULATION,
                   us_county_population_projections, output_file>>

\* variant: the ratio is not reduced by 1
ClimateEffect_Ratio(r) == RDiv(QfShare("Scenario_5", r), QfShare("Scenario_3", r))

\* Scenario_5.div(Scenario_3).sub(1) of one region
ClimateEffect(r) == RSub(RDiv(QfShare("Scenario_5", r), QfShare("Scenario_3", r)), Rat(1))

\* variant: the factors of the 50% and the 200% column are exchanged
IntensityFactor_Exchanged ==
    ("scenario_5_50%" :> <<2, 1>>) @@ ("scenario_5_100%" :> <<1, 1>>)
    @@ ("scenario_5_200%" :> <<1, 2>>)

\* the factor of each intensity column: .multiply(0.50), the full effect, .multiply(2.0)
IntensityFactor ==
    ("scenario_5_50%" :> <<1, 2>>) @@ ("scenario_5_100%" :> <<1, 1>>)
    @@ ("scenario_5_200%" :> <<2, 1>>)

CalculateClimateEffects ==
    /\ pc = "effects"
    /\ climate_effect_on_pop_shares' =
           [c \in DOMAIN IntensityFactor |->
               [r \in Regions |-> RMul(ClimateEffect(r), IntensityFactor[c])]]
    /\ pc' = "variations"
    /\ UNCHANGED <<forecast_vars, index_vars, download_vars,
                   qf_2065_regional_population_shares, us_county_data, CLIMATE_REGION,
                   climate_region_populations, climate_region_shares,
                   alternate_scenario_5_pop_shares, PERCENTAGE_OF_REGIONAL_POPULATION,
                   us_county_population_projections, output_file>>

\* variant: the change is added to the climate scenario instead of the baseline
generate_scenario_5_variations_OnScenario5(col) ==
    [r \in Regions |->
        LET change_in_pop_share == RMul(QfShare("Scenario_3", r), col[r])
        IN  RAdd(QfShare("Scenario_5", r), change_in_pop_share)]

\* def generate_scenario_5_variations(col)
generate_scenario_5_variations(col) ==
    [r \in Regions |->
        LET change_in_pop_share == RMul(QfShare("Scenario_3", r), col[r])
        IN  RAdd(QfShare("Scenario_3", r), change_in_pop_share)]

\* .rename(columns={...}) of the merge
RenamedColumn ==
    ("scenario_5_50%" :> "POPULATION_2065_S5a")
    @@ ("scenario_5_100%" :> "POPULATION_2065_S5b")
    @@ ("scenario_5_200%" :> "POPULATION_2065_S5c")

\* alternate_scenario_5_pop_shares.mul(CENSUS_POP_2065).astype(int) of one cell
AlternateToPopulation(share_fraction) == TruncMul(CENSUS_POP_2065, share_fraction)

GenerateScenarioVariations ==
    LET alt == [c \in DOMAIN climate_effect_on_pop_shares |->
                   [r \in Regions |->
                       RDiv(generate_scenario_5_variations(
                                climate_effect_on_pop_shares[c])[r], Rat(100))]]
    IN  /\ pc = "variations"
        /\ alternate_scenario_5_pop_shares' = alt
        /\ climate_region_populations' =
               [r \in DOMAIN climate_region_populations |->
                   climate_region_populations[r]
                   @@ [n \in {RenamedColumn[c] : c \in DOMAIN RenamedColumn} |->
                          LET c == CHOOSE x \in DOMAIN RenamedColumn : RenamedColumn[x] = n
                          IN  AlternateToPopulation(
                                  alternate_scenario_5_pop_shares'[c][r])]]
        /\ pc' = "proportion"
        /\ UNCHANGED <<forecast_vars, index_vars, download_vars,
                       qf_2065_regional_population_shares, us_county_data,
                       CLIMATE_REGION, climate_region_shares,
                       climate_effect_on_pop_shares, PERCENTAGE_OF_REGIONAL_POPULATION,
                       us_county_population_projections, output_file>>

\* climate_region_populations.loc[climate_region] raises KeyError for a label
\* that is no row of the table
HasRegionRow(i) == CLIMATE_REGION[i] \in DOMAIN climate_region_populations

\* variant: the county is divided by the national instead of the regional population
calculate_proportion_of_region_National(i) ==
    LET county_population == us_county_data[i].POPULATION_2010
        national_population ==
            SumOver(DOMAIN climate_region_populations,
                    [r \in DOMAIN climate_region_populations |->
                        climate_region_populations[r]["POPULATION_2010"]])
    IN  RDiv(Rat(county_population), Rat(national_population))

\* def calculate_proportion_of_region(row)
calculate_proportion_of_region(i) ==
    LET county_population == us_county_data[i].POPULATION_2010
        region_population ==
            climate_region_populations[CLIMATE_REGION[i]]["POPULATION_2010"]
    IN  RDiv(Rat(county_population), Rat(region_population))

\* us_county_data.apply(calculate_proportion_of_region, axis=1)
CalculateProportions ==
    /\ pc = "proportion"
    /\ IF \A i \in Rows : HasRegionRow(i)
       THEN /\ PERCENTAGE_OF_REGIONAL_POPULATION' =
                   [i \in Rows |-> calculate_proportion_of_region(i)]
            /\ pc' = "county"
       ELSE /\ pc' = "KeyError"
            /\ UNCHANGED PERCENTAGE_OF_REGIONAL_POPULATION
    /\ UNCHANGED <<forecast_vars, index_vars, download_vars,
                   qf_2065_regional_population_shares, us_county_data, CLIMATE_REGION,
                   climate_region_populations, climate_region_shares,
                   climate_effect_on_pop_shares, alternate_scenario_5_pop_shares,
                   us_county_population_projections, output_file>>

ScenarioColumns ==
    {"POPULATION_2065_S1", "POPULATION_2065_S3", "POPULATION_2065_S5b",
     "POPULATION_2065_S5a", "POPULATION_2065_S5c"}

\* variant: the product is rounded to the nearest integer
CountyPopulation_Rounded(regional_population, proportion_of_region) ==
    RoundHalfEven(regional_population * proportion_of_region[1], proportion_of_region[2])

\* migration_scenarios.loc[climate_region].mul(proportion_of_region).astype(int), one cell
CountyPopulation(regional_population, proportion_of_region) ==
    TruncMul(regional_population, proportion_of_region)

\* def calculate_county_scenario_populations(row)
calculate_county_scenario_populations(i) ==
    LET proportion_of_region == PERCENTAGE_OF_REGIONAL_POPULATION[i]
        climate_region == CLIMATE_REGION[i]
    IN  [c \in ScenarioColumns |->
            CountyPopulation(climate_region_populations[climate_region][c],
                             proportion_of_region)]

\* us_county_data.apply(calculate_county_scenario_populations, axis=1)
CalculateCountyPopulations ==
    /\ pc = "county"
    /\ us_county_population_projections' =
           [i \in Rows |-> calculate_county_scenario_populations(i)]
    /\ pc' = "export"
    /\ UNCHANGED <<forecast_vars, index_vars, download_vars,
                   qf_2065_regional_population_shares, us_county_data, CLIMATE_REGION,
                   climate_region_populations, climate_region_shares,
                   climate_effect_on_pop_shares, alternate_scenario_5_pop_shares,
                   PERCENTAGE_OF_REGIONAL_POPULATION, output_file>>

\* us_county_data.merge(us_county_population_projections, ...).to_csv(OUTPUT_FILE)
Export ==
    /\ pc = "export"
    /\ output_file' =
           [i \in Rows |->
               [STATE_NAME |-> us_county_data[i].STATE_NAME,
                POPULATION_2010 |-> us_county_data[i].POPULATION_2010,
                CLIMATE_REGION |-> CLIMATE_REGION[i],
                PERCENTAGE_OF_REGIONAL_POPULATION |->
                    PERCENTAGE_OF_REGIONAL_POPULATION[i]]
               @@ us_county_population_projections[i]]
    /\ pc' = "done"
    /\ UNCHANGED <<forecast_vars, index_vars, download_vars,
                   qf_2065_regional_population_shares, us_county_data, CLIMATE_REGION,
                   climate_region_populations, climate_region_shares,
                   climate_effect_on_pop_shares, alternate_scenario_5_pop_shares,
                   PERCENTAGE_OF_REGIONAL_POPULATION,
                   us_county_population_projections>>

Next ==
    \/ \E n \in {InputNames[k] : k \in DOMAIN InputNames}, p \in Pops : ReadCounty(n, p)
    \/ MapClimateRegions
    \/ AggregateRegionPopulations
    \/ CalculateRegionalShares
    \/ ProjectScenario1And3
    \/ CalculateClimateEffects
    \/ GenerateScenarioVariations
    \/ CalculateProportions
    \/ CalculateCountyPopulations
    \/ Export

Spec == Init /\ [][Next]_vars

----------------------------------------------------------------------------
(* Properties of the population projection *)

\* statement groups after which a table is complete
SharesDone == pc \notin {"read", "aggregate", "shares"}

VariationsDone == pc \in {"proportion", "county", "export", "done", "KeyError"}

CountiesDone == pc \in {"export", "done"}

\* the intensity multiplier each generated scenario is defined by
ScenarioMultiplier ==
    ("POPULATION_2065_S5a" :> <<1, 2>>) @@ ("POPULATION_2065_S5b" :> <<1, 1>>)
    @@ ("POPULATION_2065_S5c" :> <<2, 1>>)

ShareColumnOf ==
    ("POPULATION_2065_S5a" :> "scenario_5_50%")
    @@ ("POPULATION_2065_S5b" :> "scenario_5_100%")
    @@ ("POPULATION_2065_S5c" :> "scenario_5_200%")

\* a percentage of the share table t
TableShare(t, col, r) == Norm(<<t[col][r], 100>>)

\* baseline share + m * (climate share - baseline share), in percent
ScaledDeviationShare(t, r, m) ==
    RAdd(TableShare(t, "Scenario_3", r),
         RMul(m, RSub(TableShare(t, "Scenario_5", r), TableShare(t, "Scenario_3", r))))

\* the share (percent) each scenario column stands for, per share table
ScenarioShareOf ==
    [t \in ShareTables |->
        [c \in DOMAIN ScenarioMultiplier \cup {"POPULATION_2065_S1", "POPULATION_2065_S3"} |->
            [r \in Regions |->
                IF c = "POPULATION_2065_S1" THEN TableShare(t, "Scenario_1", r)
                ELSE IF c = "POPULATION_2065_S3" THEN TableShare(t, "Scenario_3", r)
                ELSE ScaledDeviationShare(t, r, ScenarioMultiplier[c])]]]

ScenarioShare(c, r) == ScenarioShareOf[qf_2065_regional_population_shares][c][r]

\* the same share as a fraction of 1, the unit of alternate_scenario_5_pop_shares
ScenarioFractionOf ==
    [t \in ShareTables |->
        [c \in DOMAIN ScenarioShareOf[t] |->
            [r \in Regions |-> RDiv(ScenarioShareOf[t][c][r], Rat(100))]]]

ScenarioFraction(c, r) == ScenarioFractionOf[qf_2065_regional_population_shares][c][r]

\* share / 100 * CENSUS_POP_2065 without its fraction, per share table
ScenarioPopulationOf ==
    [t \in ShareTables |->
        [c \in DOMAIN ScenarioShareOf[t] |->
            [r \in Regions |->
                TruncMul(CENSUS_POP_2065, RDiv(ScenarioShareOf[t][c][r], Rat(100)))]]]

ScenarioPopulation(c, r) == ScenarioPopulationOf[qf_2065_regional_population_shares][c][r]

\* C1: every generated share is baseline + m * deviation for m = 0.5, 1.0, 2.0
\* (S5a, S5b, S5c), and the regional population of the variant is taken from
\* that share; baseline 20 with climate share 25 gives 22.5 at 0.5x and 30 at 2.0x.
C1_VariantShareScalesDeviation ==
    VariationsDone =>
        /\ \A c \in DOMAIN ScenarioMultiplier, r \in Regions :
               alternate_scenario_5_pop_shares[ShareColumnOf[c]][r]
                   = ScenarioFraction(c, r)
        /\ \A c \in DOMAIN ScenarioMultiplier, r \in DOMAIN climate_region_populations :
               climate_region_populations[r][c] = ScenarioPopulation(c, r)
        /\ \A r \in Regions :
               (qf_2065_regional_population_shares["Scenario_3"][r] = 2000
                    /\ qf_2065_regional_population_shares["Scenario_5"][r] = 2500)
               => /\ alternate_scenario_5_pop_shares["scenario_5_50%"][r] = Norm(<<225, 1000>>)
                  /\ alternate_scenario_5_pop_shares["scenario_5_200%"][r] = Norm(<<30, 100>>)

C1_Witness ==
    /\ VariationsDone
    /\ QfShare("Scenario_3", "Northeast") = Rat(20)
    /\ QfShare("Scenario_5", "Northeast") = Rat(25)
    /\ "Northeast" \in DOMAIN climate_region_populations
    /\ alternate_scenario_5_pop_shares["scenario_5_50%"]["Northeast"] = <<9, 40>>

\* |100 * q - 100| <= 1/100 for a share q given as a fraction of 1
Within001Of100(q) ==
    /\ ~RLess(q, <<9999, 10000>>)
    /\ ~RLess(<<10001, 10000>>, q)

\* C2: the five regional shares of Scenario_1, Scenario_3, Scenario_5 and of
\* each generated variant sum to 100.0 within 0.01.
C2_ShareConservation ==
    /\ \A col \in {"Scenario_1", "Scenario_3", "Scenario_5"} :
           SumOver(Regions, qf_2065_regional_population_shares[col]) \in 9999..10001
    /\ VariationsDone =>
           \A c \in DOMAIN alternate_scenario_5_pop_shares :
               Within001Of100(RSumOver(Regions, alternate_scenario_5_pop_shares[c]))

C2_Witness ==
    /\ VariationsDone
    /\ \E r \in Regions :
           /\ alternate_scenario_5_pop_shares["scenario_5_200%"][r]
                  # alternate_scenario_5_pop_shares["scenario_5_100%"][r]
           /\ RLess(alternate_scenario_5_pop_shares["scenario_5_200%"][r], Rat(0))

\* a share rounded to 2 decimals, as a whole number of hundredths of a percent
Hundredths(q) == (q[1] * 100) \div q[2]

\* 2010 population of the counties that have a region
NationalTotal2010 ==
    SumOver({i \in Rows : CLIMATE_REGION[i] # NaN},
            [i \in Rows |-> us_county_data[i].POPULATION_2010])

\* nearest hundredth of population / total * 100
NearestHundredth(population, total) == RoundHalfEven(population * 10000, total)

\* the regional shares are the rounded quotients over the counties with a region
C3_SharesAreRoundedQuotients ==
    \A r \in DOMAIN climate_region_shares :
        /\ climate_region_shares[r][2] \in {1, 2, 4, 5, 10, 20, 25, 50, 100}
        /\ Hundredths(climate_region_shares[r])
               = NearestHundredth(RegionPopulation2010(r), NationalTotal2010)

\* distance of the sum of the rounded shares from 100, in hundredths of a percent
C3_SumError ==
    Abs(SumOver(DOMAIN climate_region_shares,
                [r \in DOMAIN climate_region_shares |->
                    Hundredths(climate_region_shares[r])]) - 10000)

\* C3 as stated: the baseline regional shares, each rounded to 2 decimals, sum
\* to 100 within 0.01.
C3_BaselineSharesSumWithin001 ==
    (SharesDone /\ DOMAIN climate_region_shares # {}) =>
        /\ C3_SharesAreRoundedQuotients
        /\ C3_SumError <= 1

\* C3 amended: the baseline regional shares, each rounded to 2 decimals, sum
\* to 100 within 0.02.
C3_BaselineSharesSumWithin002 ==
    (SharesDone /\ DOMAIN climate_region_shares # {}) =>
        /\ C3_SharesAreRoundedQuotients
        /\ C3_SumError <= 2

C3_Witness ==
    /\ SharesDone
    /\ DOMAIN climate_region_shares = Regions
    /\ C3_SumError = 2

\* C4: every regional 2065 population is the integer part of share / 100 *
\* CENSUS_POP_2065, and with all five regions in the table the regional
\* populations of a scenario sum to within 5 (exclusive) of CENSUS_POP_2065.
C4_RegionalPopulationsNearTarget ==
    VariationsDone =>
        /\ \A r \in DOMAIN climate_region_populations, c \in ScenarioColumns :
               climate_region_populations[r][c] = ScenarioPopulation(c, r)
        /\ DOMAIN climate_region_populations = Regions =>
               \A c \in ScenarioColumns :
                   Abs(SumOver(Regions,
                               [r \in Regions |-> climate_region_populations[r][c]])
                       - CENSUS_POP_2065) < 5

C4_Witness ==
    /\ pc = "done"
    /\ DOMAIN climate_region_populations = Regions
    /\ \E c \in ScenarioColumns :
           SumOver(Regions, [r \in Regions |-> climate_region_populations[r][c]])
               = CENSUS_POP_2065 - 3

\* sum of the county projections of one region under one scenario
CountySum(r, c) ==
    SumOver(RowsOf(r), [i \in Rows |-> us_county_population_projections[i][c]])

\* C5: for every scenario and region the county projections of the region sum
\* to the regional population up to the number of counties of the region.
C5_DownscalingConservesPopulation ==
    CountiesDone =>
        \A r \in DOMAIN climate_region_populations, c \in ScenarioColumns :
            Abs(CountySum(r, c) - climate_region_populations[r][c])
                <= Cardinality(RowsOf(r))

C5_Witness ==
    /\ pc = "done"
    /\ \E r \in DOMAIN climate_region_populations, c \in ScenarioColumns :
           /\ Cardinality(RowsOf(r)) = 3
           /\ CountySum(r, c) = climate_region_populations[r][c] - 2

\* county baseline population, region baseline population, regional population
CountyBase(i) == us_county_data[i].POPULATION_2010

RegionBase(i) == RegionPopulation2010(CLIMATE_REGION[i])

RegionTarget(i, c) == climate_region_populations[CLIMATE_REGION[i]][c]

\* C6 as stated: every county projection equals
\* round(county_baseline / region_baseline * regional population).
C6_ProjectionIsRounded ==
    CountiesDone =>
        \A i \in Rows :
            LET region_base == RegionBase(i)
            IN  \A c \in ScenarioColumns :
                    us_county_population_projections[i][c]
                        = RoundHalfEven(RegionTarget(i, c) * CountyBase(i), region_base)

\* C6 amended: every county projection is county_baseline / region_baseline *
\* regional population with its fraction cut off (toward zero), so it is
\* within 1 of the exact proportional value and never beyond it; the county's
\* share of its region is the same in every scenario; 10% of 1,000,000 is 100,000.
C6_ProjectionIsTruncated ==
    /\ CountyPopulation(1000000, <<1, 10>>) = 100000
    /\ CountiesDone =>
           \A i \in Rows :
               LET region_base == RegionBase(i)
               IN  /\ PERCENTAGE_OF_REGIONAL_POPULATION[i]
                          = Norm(<<CountyBase(i), region_base>>)
                   /\ \A c \in ScenarioColumns :
                          LET exact_times_base == RegionTarget(i, c) * CountyBase(i)
                              projection == us_county_population_projections[i][c]
                          IN  /\ Abs(projection * region_base - exact_times_base)
                                     < region_base
                              /\ Abs(projection * region_base) <= Abs(exact_times_base)
                              /\ projection = 0
                                     \/ Sign(projection) = Sign(exact_times_base)

C6_Witness ==
    /\ pc = "done"
    /\ \E i \in Rows, c \in ScenarioColumns :
           /\ ((RegionTarget(i, c) * CountyBase(i)) % RegionBase(i)) * 4 = RegionBase(i) * 3
           /\ RegionTarget(i, c) > 0
           /\ us_county_population_projections[i][c]
                  = (RegionTarget(i, c) * CountyBase(i)) \div RegionBase(i)

\* Scenario_5 share minus Scenario_3 share of the county's region, in hundredths
Deviation(i) ==
    qf_2065_regional_population_shares["Scenario_5"][CLIMATE_REGION[i]]
    - qf_2065_regional_population_shares["Scenario_3"][CLIMATE_REGION[i]]

\* C7: in a region with positive deviation every county has S5c >= S5b >= S5a,
\* in a region with negative deviation S5c <= S5b <= S5a.
C7_MonotonicIntensityScaling ==
    CountiesDone =>
        \A i \in Rows :
            LET p == us_county_population_projections[i]
            IN  /\ Deviation(i) > 0 =>
                       /\ p["POPULATION_2065_S5c"] >= p["POPULATION_2065_S5b"]
                       /\ p["POPULATION_2065_S5b"] >= p["POPULATION_2065_S5a"]
                /\ Deviation(i) < 0 =>
                       /\ p["POPULATION_2065_S5c"] <= p["POPULATION_2065_S5b"]
                       /\ p["POPULATION_2065_S5b"] <= p["POPULATION_2065_S5a"]

C7_Witness ==
    /\ pc = "done"
    /\ \E i, j \in Rows :
           /\ Deviation(i) > 0
           /\ us_county_population_projections[i]["POPULATION_2065_S5c"]
                  > us_county_population_projections[i]["POPULATION_2065_S5a"]
           /\ Deviation(j) < 0
           /\ us_county_population_projections[j]["POPULATION_2065_S5c"]
                  < us_county_population_projections[j]["POPULATION_2065_S5a"]

\* the 48 contiguous states and the District of Columbia
ContiguousStatesAndDC ==
    {"Alabama", "Arizona", "Arkansas", "California", "Colorado", "Connecticut",
     "Delaware", "District of Columbia", "Florida", "Georgia", "Idaho", "Illinois",
     "Indiana", "Iowa", "Kansas", "Kentucky", "Louisiana", "Maine", "Maryland",
     "Massachusetts", "Michigan", "Minnesota", "Mississippi", "Missouri", "Montana",
     "Nebraska", "Nevada", "New Hampshire", "New Jersey", "New Mexico", "New York",
     "North Carolina", "North Dakota", "Ohio", "Oklahoma", "Oregon", "Pennsylvania",
     "Rhode Island", "South Carolina", "South Dakota", "Tennessee", "Texas", "Utah",
     "Vermont", "Virginia", "Washington", "West Virginia", "Wisconsin", "Wyoming"}

\* the regions whose list names the state
RegionsListing(s) == {r \in DOMAIN climate_regions : s \in climate_regions[r]}

RegionsDone == pc # "read"

\* the five lists split the 48 contiguous states and DC among the five regions
ListsPartitionStates ==
    /\ DOMAIN climate_regions = Regions
    /\ UNION {climate_regions[r] : r \in Regions} = ContiguousStatesAndDC
    /\ \A s \in ContiguousStatesAndDC : Cardinality(RegionsListing(s)) = 1

\* the region whose list names the state, NaN when no list does
ListedRegion ==
    [s \in ContiguousStatesAndDC \cup {n.name : n \in {InputNames[k] : k \in DOMAIN InputNames}}
        |-> IF Cardinality(RegionsListing(s)) = 1
            THEN CHOOSE r \in RegionsListing(s) : TRUE ELSE NaN]

\* C8: each of the 48 contiguous states and DC is in exactly one region list,
\* the lookup ignores letter case, and so every county of a listed state has
\* exactly that region and the counties of one state share it.
C8_RegionIsFunctionOfState ==
    /\ ListsPartitionStates
    /\ RegionsDone =>
           /\ \A i \in Rows :
                  CLIMATE_REGION[i] = ListedRegion[us_county_data[i].STATE_NAME.name]
           /\ \A i, j \in Rows :
                  us_county_data[i].STATE_NAME.name = us_county_data[j].STATE_NAME.name
                  => CLIMATE_REGION[i] = CLIMATE_REGION[j]

C8_Witness ==
    /\ RegionsDone
    /\ \E i, j \in Rows :
           /\ us_county_data[i].STATE_NAME = Name("California")
           /\ us_county_data[j].STATE_NAME = [name |-> "California", form |-> "UPPER"]
           /\ CLIMATE_REGION[i] = "California"
           /\ CLIMATE_REGION[j] = "California"

\* C9: a county of a state outside the mapping (or without a state name) has
\* no region, is in no regional sum and not in the national denominator, and
\* does not stop the run: the counties of mapped states get their projections.
C9_UnmappedCountyDoesNotStopRun ==
    /\ MapClimateRegion(NoName) = NaN
    /\ RegionsDone =>
           \A i \in Rows :
               us_county_data[i].STATE_NAME.name \notin ContiguousStatesAndDC
               => CLIMATE_REGION[i] = NaN
    /\ SharesDone =>
           /\ NaN \notin DOMAIN climate_region_populations
           /\ \A r \in DOMAIN climate_region_populations :
                  climate_region_populations[r]["POPULATION_2010"]
                      = SumOver({i \in Rows : CLIMATE_REGION[i] = r},
                                [i \in Rows |-> us_county_data[i].POPULATION_2010])
    /\ pc = "KeyError" => \A i \in Rows : CLIMATE_REGION[i] = NaN
    /\ pc = "done" =>
           \A i \in Rows :
               CLIMATE_REGION[i] # NaN
               => \A c \in ScenarioColumns : c \in DOMAIN output_file[i]

----------------------------------------------------------------------------
(***************************************************************************)
(* Part 2: src/preprocessing/analysis/indicator_forecasting.py             *)
(***************************************************************************)

(* Float cells of a DataFrame: a finite value is a reduced rational        *)
(* <<n, d>> with d > 0; NaN is <<0, 0>>, +inf is <<1, 0>>, -inf <<-1, 0>>. *)

FloatNaN == <<0, 0>>

IsNaN(a) == a[1] = 0 /\ a[2] = 0

IsFinite(a) == a[2] # 0

FloatNeg(a) == <<-a[1], a[2]>>

\* a + b on doubles
FloatAdd(a, b) ==
    IF IsNaN(a) \/ IsNaN(b) THEN FloatNaN
    ELSE IF IsFinite(a) /\ IsFinite(b) THEN RAdd(a, b)
    ELSE IF IsFinite(b) THEN a
    ELSE IF IsFinite(a) THEN b
    ELSE IF a = b THEN a ELSE FloatNaN

\* a - b on doubles
FloatSub(a, b) == FloatAdd(a, FloatNeg(b))

\* a * b on doubles
FloatMul(a, b) ==
    IF IsNaN(a) \/ IsNaN(b) THEN FloatNaN
    ELSE IF IsFinite(a) /\ IsFinite(b) THEN RMul(a, b)
    ELSE IF a[1] = 0 \/ b[1] = 0 THEN FloatNaN
    ELSE <<Sign(a[1]) * Sign(b[1]), 0>>

\* a / b as pandas divides a column: a zero divisor gives inf or NaN, no exception
FloatDiv(a, b) ==
    IF IsNaN(a) \/ IsNaN(b) THEN FloatNaN
    ELSE IF ~IsFinite(b) THEN (IF IsFinite(a) THEN Rat(0) ELSE FloatNaN)
    ELSE IF b[1] = 0 THEN (IF a[1] = 0 THEN FloatNaN ELSE <<Sign(a[1]), 0>>)
    ELSE IF ~IsFinite(a) THEN <<a[1] * Sign(b[1]), 0>>
    ELSE RDiv(a, b)

\* round(column): nearest integer, ties to the even neighbour; NaN and inf stay
FloatRound(a) == IF IsFinite(a) THEN Rat(RoundHalfEven(a[1], a[2])) ELSE a

\* a > b for a finite b; False for NaN
FloatGreater(a, b) == ~IsNaN(a) /\ a[1] * b[2] > b[1] * a[2]

\* astype(str) of a non-negative integer: the sequence of its decimal digits
RECURSIVE Str(_)
Str(n) == IF n < 10 THEN <<n>> ELSE Append(Str(n \div 10), n % 10)

\* str.zfill(width)
RECURSIVE zfill(_, _)
zfill(s, width) == IF Len(s) >= width THEN s ELSE zfill(<<0>> \o s, width)

\* Series.unique(): the distinct values in order of first appearance
RECURSIVE unique(_)
unique(s) ==
    IF s = <<>> THEN <<>>
    ELSE LET r == unique(SubSeq(s, 1, Len(s) - 1))
             x == s[Len(s)]
         IN  IF \E i \in DOMAIN r : r[i] = x THEN r ELSE Append(r, x)

JobOpeningColumns ==
    {"JOB_OPENING_JAN", "JOB_OPENING_FEB", "JOB_OPENING_MAR", "JOB_OPENING_APR",
     "JOB_OPENING_MAY", "JOB_OPENING_JUN", "JOB_OPENING_JUL", "JOB_OPENING_AUG",
     "JOB_OPENING_SEP", "JOB_OPENING_OCT", "JOB_OPENING_NOV", "JOB_OPENING_DEC"}

SchoolPopulationColumns ==
    {"ELEMENTARY_SCHOOL_POPULATION", "MIDDLE_SCHOOL_POPULATION", "HIGH_SCHOOL_POULATION"}

filter_columns ==
    {"PUBLIC_SCHOOL_STUDENTS", "COUNTY_FIPS", "STATE", "COUNTY", "NAME",
     "TOTAL_EMPLOYED_POPULATION", "TOTAL_LABOR_FORCE", "POPULATION", "YEAR",
     "OCCUPIED_HOUSING_UNITS"} \cup SchoolPopulationColumns \cup JobOpeningColumns

(* Input tables.  A county of the cleaned data is described by its school  *)
(* counts, its labour and housing counts and its row of the population     *)
(* tables; a county may have no row in the population projections, and the *)
(* public school table may hold students and no teacher count for it.      *)

Students == {0, 30}

Teachers == {0, 2}

IndicatorBases ==
    {[TOTAL_LABOR_FORCE |-> 500, TOTAL_EMPLOYED_POPULATION |-> 480,
      OCCUPIED_HOUSING_UNITS |-> 3, TOTAL_HOUSING_UNITS |-> 4, other |-> 5,
      years |-> <<2023>>],
     [TOTAL_LABOR_FORCE |-> 7, TOTAL_EMPLOYED_POPULATION |-> 7,
      OCCUPIED_HOUSING_UNITS |-> 10, TOTAL_HOUSING_UNITS |-> 6, other |-> 2,
      years |-> <<2022, 2023>>]}

PopulationProfile(present, p2023, s3, s5b, s5a, s5c) ==
    [present |-> present, POPULATION_2023 |-> p2023, POPULATION_2065_S3 |-> s3,
     POPULATION_2065_S5b |-> s5b, POPULATION_2065_S5a |-> s5a,
     POPULATION_2065_S5c |-> s5c]

PopulationProfiles ==
    {PopulationProfile(TRUE, 100, 110, 90, 150, 250),
     PopulationProfile(TRUE, 8, 12, 4, 8, 9),
     PopulationProfile(TRUE, 3, 4, 2, 5, 1),
     PopulationProfile(FALSE, 0, 0, 0, 0, 0)}

CountyInputs ==
    [students : Students, teachers : Teachers, teachers_missing : {FALSE},
     base : IndicatorBases, projection : PopulationProfiles]
    \cup [students : {30}, teachers : {0}, teachers_missing : {TRUE},
          base : IndicatorBases, projection : {PopulationProfile(TRUE, 100, 110, 90, 150, 250)}]

\* county tables are enumerated up to the order of their counties
CountyKey(c) ==
    c.students + (IF c.teachers_missing THEN 1 ELSE 0) + 100 * c.teachers
        + 1000 * c.base.other + 10000 * c.projection.POPULATION_2023

CountyTables ==
    UNION {{t \in [1..n -> CountyInputs] :
               \A k \in 1..(n - 1) : CountyKey(t[k]) <= CountyKey(t[k + 1])} :
           n \in 1..MaxForecastCounties}

\* the row of county k and one year in the merged cleaned tables; an empty cell
\* of a CSV file is read as NaN
CleanedRow(k, year, c) ==
    [col \in JobOpeningColumns \cup SchoolPopulationColumns \cup {"POPULATION"} |->
        Rat(c.base.other)]
    @@ ("STATE" :> 1)
    @@ [COUNTY_FIPS |-> 1000 + k, COUNTY |-> k, NAME |-> <<"County", k>>,
        YEAR |-> year,
        PUBLIC_SCHOOL_STUDENTS |-> Rat(c.students),
        PUBLIC_SCHOOL_TEACHERS |->
            IF c.teachers_missing THEN FloatNaN ELSE Rat(c.teachers),
        STUDENT_TEACHER_RATIO |->
            IF c.teachers_missing THEN FloatNaN
            ELSE FloatDiv(Rat(c.students), Rat(c.teachers)),
        TOTAL_LABOR_FORCE |-> Rat(c.base.TOTAL_LABOR_FORCE),
        TOTAL_EMPLOYED_POPULATION |-> Rat(c.base.TOTAL_EMPLOYED_POPULATION),
        OCCUPIED_HOUSING_UNITS |-> Rat(c.base.OCCUPIED_HOUSING_UNITS),
        TOTAL_HOUSING_UNITS |-> Rat(c.base.TOTAL_HOUSING_UNITS)]

RECURSIVE CleanedRows(_, _)
CleanedRows(t, n) ==
    IF n = 0 THEN <<>>
    ELSE CleanedRows(t, n - 1)
         \o [y \in DOMAIN t[n].base.years |-> CleanedRow(n, t[n].base.years[y], t[n])]

RECURSIVE ProjectionRows(_, _)
ProjectionRows(t, n) ==
    IF n = 0 THEN <<>>
    ELSE ProjectionRows(t, n - 1)
         \o (IF t[n].projection.present
             THEN <<[COUNTY_FIPS |-> 1000 + n,
                     POPULATION_2065_S3 |-> t[n].projection.POPULATION_2065_S3,
                     POPULATION_2065_S5b |-> t[n].projection.POPULATION_2065_S5b,
                     POPULATION_2065_S5a |-> t[n].projection.POPULATION_2065_S5a,
                     POPULATION_2065_S5c |-> t[n].projection.POPULATION_2065_S5c]>>
             ELSE <<>>)

RECURSIVE Population2023Rows(_, _)
Population2023Rows(t, n) ==
    IF n = 0 THEN <<>>
    ELSE Population2023Rows(t, n - 1)
         \o (IF t[n].projection.present
             THEN <<("STATE" :> 1)
                    @@ [COUNTY |-> n,
                        B01003_001E |-> t[n].projection.POPULATION_2023]>>
             ELSE <<>>)

\* the CSV files the script reads
InputFiles(t) ==
    [cleaned_data |-> CleanedRows(t, Len(t)),
     county_population_projections |-> ProjectionRows(t, Len(t)),
     census_population_data_2023 |-> Population2023Rows(t, Len(t))]

PopulationNotStarted ==
    /\ pc = "not started"
    /\ qf_2065_regional_population_shares = <<>>
    /\ us_county_data = <<>>
    /\ CLIMATE_REGION = <<>>
    /\ climate_region_populations = <<>>
    /\ climate_region_shares = <<>>
    /\ climate_effect_on_pop_shares = <<>>
    /\ alternate_scenario_5_pop_shares = <<>>
    /\ PERCENTAGE_OF_REGIONAL_POPULATION = <<>>
    /\ us_county_population_projections = <<>>
    /\ output_file = <<>>

ForecastInit ==
    /\ PopulationNotStarted
    /\ IndexNotStarted
    /\ DownloadNotStarted
    /\ forecast_pc = "load"
    /\ forecast_files \in {InputFiles(t) : t \in CountyTables}
    /\ merged_df = <<>>
    /\ filtered_df = <<>>
    /\ pop_combined = <<>>
    /\ all_counties_2065_combined = <<>>
    /\ results_df = <<>>

SchoolColumns == {"PUBLIC_SCHOOL_STUDENTS", "PUBLIC_SCHOOL_TEACHERS", "STUDENT_TEACHER_RATIO"}

\* def load_and_merge_data(): school data of the years other than 2023 is set to 0
load_and_merge_data ==
    LET merged == forecast_files.cleaned_data
    IN  [i \in DOMAIN merged |->
            [col \in DOMAIN merged[i] |->
                IF merged[i].YEAR # 2023 /\ col \in SchoolColumns
                THEN Rat(0) ELSE merged[i][col]]]

LoadAndMergeData ==
    /\ forecast_pc = "load"
    /\ merged_df' = load_and_merge_data
    /\ forecast_pc' = "filter"
    /\ UNCHANGED <<population_vars, index_vars, download_vars, forecast_files, filtered_df,
                   pop_combined, all_counties_2065_combined, results_df>>

\* def prepare_filtered_data(merged_df)
prepare_filtered_data(df) ==
    LET rows == SelectSeq(df, LAMBDA row : row.YEAR = 2023)
    IN  [i \in DOMAIN rows |->
            [col \in filter_columns |->
                IF col = "COUNTY_FIPS" THEN zfill(Str(rows[i].COUNTY_FIPS), 5)
                ELSE rows[i][col]]]

PrepareFilteredData ==
    /\ forecast_pc = "filter"
    /\ filtered_df' = prepare_filtered_data(merged_df)
    /\ forecast_pc' = "population"
    /\ UNCHANGED <<population_vars, index_vars, download_vars, forecast_files, merged_df,
                   pop_combined, all_counties_2065_combined, results_df>>

\* variant: the change is taken relative to the projected population
PercentageChange_OfProjected(population_2065, population_2023) ==
    FloatMul(FloatDiv(FloatSub(population_2065, population_2023), population_2065),
             Rat(100))

\* ((POPULATION_2065_s - POPULATION_2023) / POPULATION_2023) * 100
PercentageChange(population_2065, population_2023) ==
    FloatMul(FloatDiv(FloatSub(population_2065, population_2023), population_2023),
             Rat(100))

\* def process_population_data(): the left merge and the four percentage changes
process_population_data ==
    LET pop_project_df == forecast_files.county_population_projections
        pop_2023 == forecast_files.census_population_data_2023
        Fips2023(j) == zfill(Str(pop_2023[j]["STATE"]), 2) \o zfill(Str(pop_2023[j].COUNTY), 3)
        Merged(i) ==
            LET fips == zfill(Str(pop_project_df[i].COUNTY_FIPS), 5)
                match == {j \in DOMAIN pop_2023 : Fips2023(j) = fips}
                p2023 == IF match = {} THEN FloatNaN
                         ELSE Rat(pop_2023[CHOOSE j \in match : TRUE].B01003_001E)
                P2065(s) == Rat(pop_project_df[i][s])
            IN  [COUNTY_FIPS |-> fips,
                 POPULATION_2023 |-> p2023,
                 POPULATION_2065_S3 |-> P2065("POPULATION_2065_S3"),
                 POPULATION_2065_S5b |-> P2065("POPULATION_2065_S5b"),
                 POPULATION_2065_S5a |-> P2065("POPULATION_2065_S5a"),
                 POPULATION_2065_S5c |-> P2065("POPULATION_2065_S5c"),
                 S3_Percentage_Change |->
                     PercentageChange(P2065("POPULATION_2065_S3"), p2023),
                 S5b_Percentage_Change |->
                     PercentageChange(P2065("POPULATION_2065_S5b"), p2023),
                 S5a_Percentage_Change |->
                     PercentageChange(P2065("POPULATION_2065_S5a"), p2023),
                 S5c_Percentage_Change |->
                     PercentageChange(P2065("POPULATION_2065_S5c"), p2023)]
    IN  [i \in DOMAIN pop_project_df |-> Merged(i)]

ProcessPopulationData ==
    /\ forecast_pc = "population"
    /\ pop_combined' = process_population_data
    /\ forecast_pc' = "projections"
    /\ UNCHANGED <<population_vars, index_vars, download_vars, forecast_files, merged_df,
                   filtered_df, all_counties_2065_combined, results_df>>

columns_to_exclude == {"COUNTY_FIPS", "STATE", "COUNTY", "YEAR", "NAME", "SCENARIO"}

\* variant: the scaled value is cut to its integer part
ProjectedValue_Truncated(value, percentage_change) ==
    LET scaled == FloatMul(value, FloatAdd(Rat(1), FloatDiv(percentage_change, Rat(100))))
    IN  IF IsFinite(scaled) THEN Rat(TruncMul(1, scaled)) ELSE scaled

\* round(projected_df[col] * (1 + percentage_change / 100)), one cell
ProjectedValue(value, percentage_change) ==
    FloatRound(FloatMul(value, FloatAdd(Rat(1), FloatDiv(percentage_change, Rat(100)))))

\* def calculate_projected_values(df, base_year, percentage_change, scenario_name)
calculate_projected_values(df, base_year, percentage_change, scenario_name) ==
    LET projected_df == SelectSeq(df, LAMBDA row : row.YEAR = base_year)
    IN  [i \in DOMAIN projected_df |->
            [col \in DOMAIN projected_df[i] \cup {"SCENARIO"} |->
                IF col = "SCENARIO" THEN scenario_name
                ELSE IF col \in columns_to_exclude THEN projected_df[i][col]
                ELSE ProjectedValue(projected_df[i][col], percentage_change)]]

\* variant: a county without projection data keeps its row of 2023
CountyCombined_KeepsOriginal(fdf, pcomb, county) ==
    LET county_df == SelectSeq(fdf, LAMBDA row : row.COUNTY_FIPS = county)
        rows2023 == SelectSeq(county_df, LAMBDA row : row.YEAR = 2023)
        original_df == [i \in DOMAIN rows2023 |-> rows2023[i] @@ [SCENARIO |-> "Original"]]
        county_proj == SelectSeq(pcomb, LAMBDA row : row.COUNTY_FIPS = county)
        percentage_changes == county_proj[1]
    IN  IF county_proj = <<>> THEN original_df
        ELSE original_df
             \o calculate_projected_values(county_df, 2023,
                    percentage_changes.S3_Percentage_Change, "S3")
             \o calculate_projected_values(county_df, 2023,
                    percentage_changes.S5b_Percentage_Change, "S5b")
             \o calculate_projected_values(county_df, 2023,
                    percentage_changes.S5a_Percentage_Change, "S5a")
             \o calculate_projected_values(county_df, 2023,
                    percentage_changes.S5c_Percentage_Change, "S5c")
\* variant: the percentage changes are those of the first row of pop_combined
CountyCombined_FirstProjection(fdf, pcomb, county) ==
    LET county_df == SelectSeq(fdf, LAMBDA row : row.COUNTY_FIPS = county)
        rows2023 == SelectSeq(county_df, LAMBDA row : row.YEAR = 2023)
        original_df == [i \in DOMAIN rows2023 |-> rows2023[i] @@ [SCENARIO |-> "Original"]]
        county_proj == SelectSeq(pcomb, LAMBDA row : row.COUNTY_FIPS = county)
        percentage_changes == pcomb[1]
    IN  IF county_proj = <<>> THEN <<>>
        ELSE original_df
             \o calculate_projected_values(county_df, 2023,
                    percentage_changes.S3_Percentage_Change, "S3")
             \o calculate_projected_values(county_df, 2023,
                    percentage_changes.S5b_Percentage_Change, "S5b")
             \o calculate_projected_values(county_df, 2023,
                    percentage_changes.S5a_Percentage_Change, "S5a")
             \o calculate_projected_values(county_df, 2023,
                    percentage_changes.S5c_Percentage_Change, "S5c")

\* the rows one county adds to all_counties_2065_combined (body of the loop)
CountyCombined(fdf, pcomb, county) ==
    LET county_df == SelectSeq(fdf, LAMBDA row : row.COUNTY_FIPS = county)
        rows2023 == SelectSeq(county_df, LAMBDA row : row.YEAR = 2023)
        original_df == [i \in DOMAIN rows2023 |-> rows2023[i] @@ [SCENARIO |-> "Original"]]
        county_proj == SelectSeq(pcomb, LAMBDA row : row.COUNTY_FIPS = county)
        percentage_changes == county_proj[1]
    IN  IF county_proj = <<>> THEN <<>>
        ELSE original_df
             \o calculate_projected_values(county_df, 2023,
                    percentage_changes.S3_Percentage_Change, "S3")
             \o calculate_projected_values(county_df, 2023,
                    percentage_changes.S5b_Percentage_Change, "S5b")
             \o calculate_projected_values(county_df, 2023,
                    percentage_changes.S5a_Percentage_Change, "S5a")
             \o calculate_projected_values(county_df, 2023,
                    percentage_changes.S5c_Percentage_Change, "S5c")

RECURSIVE CombineCounties(_, _, _, _)
CombineCounties(fdf, pcomb, all_counties, n) ==
    IF n = 0 THEN <<>>
    ELSE CombineCounties(fdf, pcomb, all_counties, n - 1)
         \o CountyCombined(fdf, pcomb, all_counties[n])

\* def generate_county_projections(filtered_df, pop_combined)
generate_county_projections(fdf, pcomb) ==
    LET all_counties == unique([i \in DOMAIN fdf |-> fdf[i].COUNTY_FIPS])
    IN  CombineCounties(fdf, pcomb, all_counties, Len(all_counties))

GenerateCountyProjections ==
    /\ forecast_pc = "projections"
    /\ all_counties_2065_combined' = generate_county_projections(filtered_df, pop_combined)
    /\ forecast_pc' = "derived"
    /\ UNCHANGED <<population_vars, index_vars, download_vars, forecast_files, merged_df,
                   filtered_df, pop_combined, results_df>>

\* PUBLIC_SCHOOL_STUDENTS / teacher_count
StudentTeacherRatio(students, teacher_count) == FloatDiv(students, teacher_count)

\* variant: a housing shortage is stored as zero
AvailableHousingUnits_Clamped(housing_units_count, occupied) ==
    LET available == FloatSub(housing_units_count, occupied)
    IN  IF FloatGreater(available, Rat(0)) \/ IsNaN(available) THEN available ELSE Rat(0)

\* housing_units_count - OCCUPIED_HOUSING_UNITS
AvailableHousingUnits(housing_units_count, occupied) ==
    FloatSub(housing_units_count, occupied)

\* (employed_population_count / TOTAL_LABOR_FORCE) * 100
TotalEmployedPercentage(employed_population_count, labor_force) ==
    FloatMul(FloatDiv(employed_population_count, labor_force), Rat(100))

\* 100 - TOTAL_EMPLOYED_PERCENTAGE
UnemploymentRate(total_employed_percentage) ==
    FloatSub(Rat(100), total_employed_percentage)

DerivedColumns ==
    {"STUDENT_TEACHER_RATIO", "AVAILABLE_HOUSING_UNITS", "TOTAL_EMPLOYED_PERCENTAGE",
     "UNEMPLOYMENT_RATE"}

\* def calculate_derived_metrics(all_counties_2065_combined, merged_df), for a
\* table that has the column COUNTY_FIPS
calculate_derived_metrics(combined, merged) ==
    LET rows2023 == SelectSeq(merged, LAMBDA row : row.YEAR = 2023)
        merged_df_2023 ==
            [i \in DOMAIN rows2023 |->
                [rows2023[i] EXCEPT !.COUNTY_FIPS = zfill(Str(@), 5)]]
        Derived(row) ==
            LET county_df == SelectSeq(merged_df_2023,
                                 LAMBDA m : m.COUNTY_FIPS = zfill(row.COUNTY_FIPS, 5))
                teacher_count == county_df[1].PUBLIC_SCHOOL_TEACHERS
                housing_units_count == county_df[1].TOTAL_HOUSING_UNITS
                employed_population_count == county_df[1].TOTAL_EMPLOYED_POPULATION
                percentage == TotalEmployedPercentage(employed_population_count,
                                                      row.TOTAL_LABOR_FORCE)
            IN  IF county_df = <<>> THEN [col \in DerivedColumns |-> FloatNaN]
                ELSE [STUDENT_TEACHER_RATIO |->
                          StudentTeacherRatio(row.PUBLIC_SCHOOL_STUDENTS, teacher_count),
                      AVAILABLE_HOUSING_UNITS |->
                          AvailableHousingUnits(housing_units_count,
                                                row.OCCUPIED_HOUSING_UNITS),
                      TOTAL_EMPLOYED_PERCENTAGE |-> percentage,
                      UNEMPLOYMENT_RATE |-> UnemploymentRate(percentage)]
    IN  [i \in DOMAIN combined |->
            Derived(combined[i])
            @@ [combined[i] EXCEPT !.COUNTY_FIPS = zfill(@, 5),
                                   !["STATE"] = zfill(Str(@), 2),
                                   !.COUNTY = zfill(Str(@), 3)]]

\* an empty DataFrame() has no column COUNTY_FIPS: indexing it raises KeyError.
\* The function assigns the derived columns and the formatted codes into the table
\* it receives and returns that table: all_counties_2065_combined is one object
\* before and after the call.
CalculateDerivedMetrics ==
    /\ forecast_pc = "derived"
    /\ IF all_counties_2065_combined = <<>>
       THEN /\ forecast_pc' = "KeyError"
            /\ UNCHANGED all_counties_2065_combined
       ELSE /\ all_counties_2065_combined' =
                   calculate_derived_metrics(all_counties_2065_combined, merged_df)
            /\ forecast_pc' = "save combined"
    /\ UNCHANGED <<population_vars, index_vars, download_vars, forecast_files, merged_df,
                   filtered_df, pop_combined, results_df>>

\* all_counties_2065_combined.to_csv(PROJECTED_DATA / "combined_2065_data.csv")
SaveCombined ==
    /\ forecast_pc = "save combined"
    /\ forecast_files' =
           forecast_files @@ [combined_2065_data |-> all_counties_2065_combined]
    /\ forecast_pc' = "indices"
    /\ UNCHANGED <<population_vars, index_vars, download_vars, merged_df, filtered_df,
                   pop_combined, all_counties_2065_combined, results_df>>

cols == <<"UNEMPLOYMENT_RATE", "STUDENT_TEACHER_RATIO", "AVAILABLE_HOUSING_UNITS">>

\* the weights of the four projected indices
index_weights ==
    [INDEX_BALANCED |->
        [UNEMPLOYMENT_RATE |-> Norm(<<33, 100>>),
         STUDENT_TEACHER_RATIO |-> Norm(<<33, 100>>),
         AVAILABLE_HOUSING_UNITS |-> Norm(<<33, 100>>)],
     INDEX_EMPLOYMENT |->
        [UNEMPLOYMENT_RATE |-> Norm(<<6, 10>>),
         STUDENT_TEACHER_RATIO |-> Norm(<<2, 10>>),
         AVAILABLE_HOUSING_UNITS |-> Norm(<<2, 10>>)],
     INDEX_HOUSING |->
        [UNEMPLOYMENT_RATE |-> Norm(<<2, 10>>),
         STUDENT_TEACHER_RATIO |-> Norm(<<2, 10>>),
         AVAILABLE_HOUSING_UNITS |-> Norm(<<6, 10>>)],
     INDEX_EDUCATION |->
        [UNEMPLOYMENT_RATE |-> Norm(<<2, 10>>),
         STUDENT_TEACHER_RATIO |-> Norm(<<6, 10>>),
         AVAILABLE_HOUSING_UNITS |-> Norm(<<2, 10>>)]]

\* the standardised columns that enter the indices with a minus sign
flipped_columns == {"UNEMPLOYMENT_RATE", "STUDENT_TEACHER_RATIO"}

\* index_df: the rows with PUBLIC_SCHOOL_STUDENTS > 0
index_df(combined) ==
    SelectSeq(combined, LAMBDA row : FloatGreater(row.PUBLIC_SCHOOL_STUDENTS, Rat(0)))

\* StandardScaler.fit_transform raises ValueError for a table without rows and
\* for a table that holds an infinite value; NaN is accepted
FitTransformRaises(df) ==
    \/ df = <<>>
    \/ \E i \in DOMAIN df : \E k \in DOMAIN cols :
           ~IsFinite(df[i][cols[k]]) /\ ~IsNaN(df[i][cols[k]])

\* One cell of StandardScaler.fit_transform: (x - mean) / std over the column of
\* index_df.  The quotient is irrational in general; the model keeps the cell as
\* the column and the value x it is computed from.
Standardized(column, x) == [column |-> column, x |-> x]

\* one projected index of one row: the terms coefficient * z
ProjectedIndex(name, row) ==
    [k \in DOMAIN cols |->
        [coefficient |-> IF cols[k] \in flipped_columns
                         THEN FloatNeg(index_weights[name][cols[k]])
                         ELSE index_weights[name][cols[k]],
         z |-> Standardized(cols[k], row[cols[k]])]]

\* def calculate_indices(all_counties_2065_combined), when the scaler accepts index_df
calculate_indices(combined) ==
    LET df == index_df(combined)
    IN  [i \in DOMAIN df |->
            [COUNTY_FIPS |-> df[i].COUNTY_FIPS,
             SCENARIO |-> df[i].SCENARIO,
             INDEX_BALANCED |-> ProjectedIndex("INDEX_BALANCED", df[i]),
             INDEX_EMPLOYMENT |-> ProjectedIndex("INDEX_EMPLOYMENT", df[i]),
             INDEX_HOUSING |-> ProjectedIndex("INDEX_HOUSING", df[i]),
             INDEX_EDUCATION |-> ProjectedIndex("INDEX_EDUCATION", df[i])]]

CalculateIndices ==
    /\ forecast_pc = "indices"
    /\ IF FitTransformRaises(index_df(all_counties_2065_combined))
       THEN /\ forecast_pc' = "ValueError"
            /\ UNCHANGED results_df
       ELSE /\ results_df' = calculate_indices(all_counties_2065_combined)
            /\ forecast_pc' = "save results"
    /\ UNCHANGED <<population_vars, index_vars, download_vars, forecast_files, merged_df,
                   filtered_df, pop_combined, all_counties_2065_combined>>

\* results_df.to_csv(PROJECTED_DATA / "projected_socioeconomic_indices.csv")
SaveResults ==
    /\ forecast_pc = "save results"
    /\ forecast_files' =
           forecast_files @@ [projected_socioeconomic_indices |-> results_df]
    /\ forecast_pc' = "done"
    /\ UNCHANGED <<population_vars, index_vars, download_vars, merged_df, filtered_df,
                   pop_combined, all_counties_2065_combined, results_df>>

ForecastNext ==
    \/ LoadAndMergeData
    \/ PrepareFilteredData
    \/ ProcessPopulationData
    \/ GenerateCountyProjections
    \/ CalculateDerivedMetrics
    \/ SaveCombined
    \/ CalculateIndices
    \/ SaveResults

ForecastSpec == ForecastInit /\ [][ForecastNext]_vars

----------------------------------------------------------------------------
(* Claims about indicator_forecasting.py *)

ProjectionsDone ==
    forecast_pc \in {"derived", "save combined", "indices", "save results", "done",
                     "ValueError"}

DerivedDone ==
    forecast_pc \in {"save combined", "indices", "save results", "done", "ValueError"}

IdentityColumns == {"COUNTY_FIPS", "STATE", "COUNTY", "YEAR", "NAME"}

ScalableColumns == filter_columns \ IdentityColumns

PopulationColumnOf ==
    [S3 |-> "POPULATION_2065_S3", S5a |-> "POPULATION_2065_S5a",
     S5b |-> "POPULATION_2065_S5b", S5c |-> "POPULATION_2065_S5c"]

PercentageColumnOf ==
    [S3 |-> "S3_Percentage_Change", S5a |-> "S5a_Percentage_Change",
     S5b |-> "S5b_Percentage_Change", S5c |-> "S5c_Percentage_Change"]

\* the 2023 row of a county in the filtered indicator table
Row2023(county) ==
    filtered_df[CHOOSE i \in DOMAIN filtered_df : filtered_df[i].COUNTY_FIPS = county]

\* the row of a county in the population table
PopulationRow(county) ==
    pop_combined[CHOOSE i \in DOMAIN pop_combined : pop_combined[i].COUNTY_FIPS = county]

HasProjection(county) ==
    \E i \in DOMAIN pop_combined : pop_combined[i].COUNTY_FIPS = county

\* the row of a county and a scenario in the combined table
IsScenarioRow(row, county, scenario) ==
    zfill(row.COUNTY_FIPS, 5) = county /\ row.SCENARIO = scenario

\* C11: for every county with projection data and every scenario s of S3, S5a,
\* S5b, S5c the percentage change is (POPULATION_2065_s - POPULATION_2023) /
\* POPULATION_2023 * 100 and every scalable column of the county's 2023 row is
\* projected as the nearest integer of value * (1 + change / 100), that is of
\* value * POPULATION_2065_s / POPULATION_2023; the identity columns are left
\* unchanged and the Original row keeps the 2023 values.
C11_ScenarioRowsAreScaledAndRounded ==
    ProjectionsDone =>
        \A f \in DOMAIN filtered_df :
            LET county == filtered_df[f].COUNTY_FIPS
                base == Row2023(county)
            IN  HasProjection(county) =>
                    LET population == PopulationRow(county)
                        p2023 == population.POPULATION_2023[1]
                    IN  /\ \E i \in DOMAIN all_counties_2065_combined :
                               /\ IsScenarioRow(all_counties_2065_combined[i], county,
                                                "Original")
                               /\ \A col \in ScalableColumns :
                                      all_counties_2065_combined[i][col] = base[col]
                        /\ \A s \in DOMAIN PopulationColumnOf :
                               LET p2065 == population[PopulationColumnOf[s]][1]
                                   change == population[PercentageColumnOf[s]]
                               IN  /\ change[1] * p2023 = (p2065 - p2023) * 100 * change[2]
                                   /\ \E i \in DOMAIN all_counties_2065_combined :
                                          IsScenarioRow(all_counties_2065_combined[i],
                                                        county, s)
                                   /\ \A i \in DOMAIN all_counties_2065_combined :
                                          LET row == all_counties_2065_combined[i]
                                          IN  IsScenarioRow(row, county, s) =>
                                                  /\ \A col \in ScalableColumns :
                                                         row[col] =
                                                             Rat(RoundHalfEven(
                                                                 base[col][1] * p2065, p2023))
                                                  /\ forecast_pc = "derived" =>
                                                         \A col \in IdentityColumns :
                                                             row[col] = base[col]

\* a scenario row holds the half-way case 3 * 1.5 = 4.5, stored as 4, next to the
\* case 5 * 1.5 = 7.5, stored as 8
C11_Witness ==
    /\ forecast_pc = "derived"
    /\ \E i \in DOMAIN all_counties_2065_combined :
           LET row == all_counties_2065_combined[i]
           IN  /\ row.SCENARIO = "S5a"
               /\ Row2023(row.COUNTY_FIPS).OCCUPIED_HOUSING_UNITS = Rat(3)
               /\ row.OCCUPIED_HOUSING_UNITS = Rat(4)
               /\ Row2023(row.COUNTY_FIPS).POPULATION = Rat(5)
               /\ row.POPULATION = Rat(8)

\* C12: the unemployment rate of every scenario row is derived from the scaled
\* values of that row, 100 - (scaled employed / scaled labour force * 100); with
\* labour force 500, employed 480 and a change of +10% the row holds 550, 528
\* and the rate 4.0.
C12_UnemploymentRateUsesScaledValues ==
    DerivedDone =>
        \A i \in DOMAIN all_counties_2065_combined :
            LET row == all_counties_2065_combined[i]
                labor_force == row.TOTAL_LABOR_FORCE[1]
                employed == row.TOTAL_EMPLOYED_POPULATION[1]
                rate == row.UNEMPLOYMENT_RATE
            IN  /\ labor_force > 0 =>
                       /\ IsFinite(rate)
                       /\ rate[1] * labor_force = 100 * (labor_force - employed) * rate[2]
                /\ labor_force = 550 /\ employed = 528 => rate = Rat(4)

\* the total housing units of a county: its 2023 row of the merged tables
TotalHousingUnits(county) ==
    LET i == CHOOSE j \in DOMAIN merged_df :
                 merged_df[j].YEAR = 2023 /\ zfill(Str(merged_df[j].COUNTY_FIPS), 5) = county
    IN  merged_df[i].TOTAL_HOUSING_UNITS[1]

\* C13: in every row AVAILABLE_HOUSING_UNITS is the county's total housing units
\* minus the occupied housing units of that row, and it is negative whenever the
\* occupied units of the row exceed the total.
C13_AvailableHousingIsNotClamped ==
    DerivedDone =>
        \A i \in DOMAIN all_counties_2065_combined :
            LET row == all_counties_2065_combined[i]
                total == TotalHousingUnits(row.COUNTY_FIPS)
                occupied == row.OCCUPIED_HOUSING_UNITS[1]
            IN  /\ row.AVAILABLE_HOUSING_UNITS = <<total - occupied, 1>>
                /\ occupied > total => row.AVAILABLE_HOUSING_UNITS[1] < 0

\* a county with free housing in 2023 whose scenario row has a shortage
C13_Witness ==
    /\ DerivedDone
    /\ \E i, j \in DOMAIN all_counties_2065_combined :
           LET original == all_counties_2065_combined[i]
               scenario == all_counties_2065_combined[j]
           IN  /\ original.COUNTY_FIPS = scenario.COUNTY_FIPS
               /\ original.SCENARIO = "Original"
               /\ original.AVAILABLE_HOUSING_UNITS[1] > 0
               /\ scenario.SCENARIO = "S5c"
               /\ scenario.AVAILABLE_HOUSING_UNITS[1] < 0

\* the teacher count of a county: its 2023 row of the merged tables
TeacherCount(county) ==
    LET i == CHOOSE j \in DOMAIN merged_df :
                 merged_df[j].YEAR = 2023 /\ zfill(Str(merged_df[j].COUNTY_FIPS), 5) = county
    IN  merged_df[i].PUBLIC_SCHOOL_TEACHERS

InResults(row) ==
    \E k \in DOMAIN results_df :
        results_df[k].COUNTY_FIPS = row.COUNTY_FIPS /\ results_df[k].SCENARIO = row.SCENARIO

\* C14: a county whose teacher count is zero gets the student-teacher ratio NaN,
\* it is left out of the indices, and the indices of every other county with
\* school data are still computed: the run ends without an error.
C14_ZeroTeachersAreExcludedAndRunCompletes ==
    forecast_pc \in {"done", "ValueError"} =>
        \A i \in DOMAIN all_counties_2065_combined :
            LET row == all_counties_2065_combined[i]
            IN  IF TeacherCount(row.COUNTY_FIPS) = Rat(0)
                THEN IsNaN(row.STUDENT_TEACHER_RATIO) /\ ~InResults(row)
                ELSE FloatGreater(row.PUBLIC_SCHOOL_STUDENTS, Rat(0)) =>
                         forecast_pc = "done" /\ InResults(row)

----------------------------------------------------------------------------
(***************************************************************************)
(* Part 3: src/preprocessing/analysis/socio_economic_index.py              *)
(***************************************************************************)

SeqToSet(s) == {s[i] : i \in DOMAIN s}

RECURSIVE SeqSum(_)
SeqSum(s) == IF s = <<>> THEN Rat(0) ELSE RAdd(SeqSum(SubSeq(s, 1, Len(s) - 1)), s[Len(s)])

\* the rows of a table and the cells of a row as values, the way a DataFrame holds
\* them
DataFrame(rows) == rows \o <<>>

Cells(row) == row @@ <<>>

Categories == <<"crime", "economic", "education", "housing", "jobs">>

normalization_config ==
    [crime |-> <<"CRIMINAL_ACTIVITIES">>,
     economic |-> <<"MEDIAN_INCOME", "UNEMPLOYMENT_RATE", "TOTAL_EMPLOYED_POPULATION">>,
     education |-> <<"BACHELORS_OR_HIGHER_TOTAL", "TOTAL_ENROLLED",
                     "LESS_THAN_HIGH_SCHOOL_UNEMPLOYED">>,
     housing |-> <<"MEDIAN_HOUSING_VALUE", "MEDIAN_GROSS_RENT", "HOUSE_AFFORDABILITY">>,
     jobs |-> <<"JOB_OPENING_JAN", "JOB_OPENING_FEB", "JOB_OPENING_MAR", "JOB_OPENING_APR",
                "JOB_OPENING_MAY", "JOB_OPENING_JUN", "JOB_OPENING_JUL", "JOB_OPENING_AUG",
                "JOB_OPENING_SEP", "JOB_OPENING_OCT", "JOB_OPENING_NOV", "JOB_OPENING_DEC">>]

columns_to_normalize ==
    normalization_config.crime \o normalization_config.economic
        \o normalization_config.education \o normalization_config.housing
        \o normalization_config.jobs

invert_columns ==
    <<"Criminal_Activities", "UNEMPLOYMENT_RATE", "LESS_THAN_HIGH_SCHOOL_UNEMPLOYED",
      "HOUSE_AFFORDABILITY">>

identity_cols == <<"COUNTY_FIPS", "STATE", "COUNTY", "NAME", "POPULATION", "Year">>

Weights(crime, economic, education, housing, jobs) ==
    [crime |-> Norm(<<crime, 10>>), economic |-> Norm(<<economic, 10>>),
     education |-> Norm(<<education, 10>>), housing |-> Norm(<<housing, 10>>),
     jobs |-> Norm(<<jobs, 10>>)]

scenarios ==
    <<[name |-> "balanced", weights |-> Weights(2, 2, 2, 2, 2),
       category_columns |-> normalization_config],
      [name |-> "economy_focused", weights |-> Weights(1, 4, 2, 2, 1),
       category_columns |-> normalization_config],
      [name |-> "safety_focused", weights |-> Weights(4, 2, 1, 2, 1),
       category_columns |-> normalization_config],
      [name |-> "opportunity_focused", weights |-> Weights(1, 2, 3, 1, 3),
       category_columns |-> normalization_config]>>

\* f"socioeconomic_index_{scenario['name']}"
IndexColumn ==
    [balanced |-> "socioeconomic_index_balanced",
     economy_focused |-> "socioeconomic_index_economy_focused",
     safety_focused |-> "socioeconomic_index_safety_focused",
     opportunity_focused |-> "socioeconomic_index_opportunity_focused"]

\* f"{category}_score"
ScoreColumn ==
    [crime |-> "crime_score", economic |-> "economic_score",
     education |-> "education_score", housing |-> "housing_score",
     jobs |-> "jobs_score"]

\* f"{index_col}_rank"
RankColumn ==
    [socioeconomic_index_balanced |-> "socioeconomic_index_balanced_rank",
     socioeconomic_index_economy_focused |-> "socioeconomic_index_economy_focused_rank",
     socioeconomic_index_safety_focused |-> "socioeconomic_index_safety_focused_rank",
     socioeconomic_index_opportunity_focused |->
         "socioeconomic_index_opportunity_focused_rank"]

(* Input tables.  A row of the merged cleaned data is described by its     *)
(* crime count, the level of the three indicators named in invert_columns  *)
(* with the spelling of the table, and the level of its other indicators.  *)

CrimeValues == 0..MaxLevel

Levels == {1, MaxLevel}

IndexCountyInputs == [crime : CrimeValues, undesirable : Levels, level : Levels]

\* tables are enumerated up to the order of their rows
IndexCountyKey(c) == 100 * c.crime + 10 * c.undesirable + c.level

IndexTables ==
    UNION {{t \in [1..n -> IndexCountyInputs] :
               \A k \in 1..(n - 1) : IndexCountyKey(t[k]) <= IndexCountyKey(t[k + 1])} :
           n \in 1..MaxIndexRows}

\* the row of county k in the merged cleaned tables
IndexCleanedRow(k, c) ==
    [col \in SeqToSet(columns_to_normalize) |->
        IF col = "CRIMINAL_ACTIVITIES" THEN Rat(c.crime)
        ELSE IF col \in {"UNEMPLOYMENT_RATE", "LESS_THAN_HIGH_SCHOOL_UNEMPLOYED",
                         "HOUSE_AFFORDABILITY"} THEN Rat(c.undesirable)
        ELSE Rat(c.level)]
    @@ [col \in SeqToSet(identity_cols) |->
        IF col = "COUNTY_FIPS" THEN 1000 + k
        ELSE IF col = "STATE" THEN 1
        ELSE IF col = "COUNTY" THEN k
        ELSE IF col = "NAME" THEN <<"County", k>>
        ELSE IF col = "POPULATION" THEN 100 * c.level
        ELSE 2023]

IndexInputFiles(t) == [cleaned_data |-> [k \in DOMAIN t |-> IndexCleanedRow(k, t[k])]]

IndexInit ==
    /\ PopulationNotStarted
    /\ ForecastNotStarted
    /\ DownloadNotStarted
    /\ index_pc = "read"
    /\ index_files \in {IndexInputFiles(t) : t \in IndexTables}
    /\ index_merged_df = <<>>
    /\ normalized_df = <<>>
    /\ index_results_df = <<>>
    /\ final_df = <<>>
    /\ rankings_df = <<>>

\* the reads, the inner merges on the identity columns and the removal of the
\* z_score columns
ReadAndMerge ==
    /\ index_pc = "read"
    /\ index_merged_df' = index_files.cleaned_data
    /\ index_pc' = "normalize"
    /\ UNCHANGED <<population_vars, forecast_vars, download_vars, index_files, normalized_df,
                   index_results_df, final_df, rankings_df>>

\* variant: the scale of a constant column is left at 1 / 0, mapped to one
MinMaxScale_ConstantToOne(x, data_min, data_max) ==
    IF data_max = data_min THEN Rat(1)
    ELSE RDiv(RSub(x, data_min), RSub(data_max, data_min))

\* MinMaxScaler: X * scale_ + min_, scale_ = 1 / (data_max - data_min) and
\* min_ = 0 - data_min * scale_; the scale of a constant column is 1
MinMaxScale(x, data_min, data_max) ==
    LET data_range == RSub(data_max, data_min)
        scale == IF data_range[1] = 0 THEN Rat(1) ELSE RDiv(Rat(1), data_range)
        min_ == RSub(Rat(0), RMul(data_min, scale))
    IN  RAdd(RMul(x, scale), min_)

ColumnValues(df, col) == {df[i][col] : i \in DOMAIN df}

ColumnMin(df, col) ==
    CHOOSE v \in ColumnValues(df, col) : \A w \in ColumnValues(df, col) : ~RLess(w, v)

ColumnMax(df, col) ==
    CHOOSE v \in ColumnValues(df, col) : \A w \in ColumnValues(df, col) : ~RLess(v, w)

\* if col in normalized_df.columns, for col in invert_columns
Inverted(col, inverted) == col \in SeqToSet(inverted)

\* def normalize_data(df, columns_to_normalize, invert_columns=None); the index of
\* df is the RangeIndex a merge returns, so the columns of normalized_df are
\* assigned row by row
normalize_data(df, columns, inverted) ==
    IF columns = <<>> THEN df
    ELSE LET data_min == [col \in SeqToSet(columns) |-> ColumnMin(df, col)]
             data_max == [col \in SeqToSet(columns) |-> ColumnMax(df, col)]
             Normalized(i, col) ==
                 LET v == MinMaxScale(df[i][col], data_min[col], data_max[col])
                 IN  IF Inverted(col, inverted) THEN RSub(Rat(1), v) ELSE v
         IN  DataFrame([i \in DOMAIN df |->
                 Cells([col \in DOMAIN df[i] |->
                     IF col \in SeqToSet(columns) THEN Normalized(i, col)
                     ELSE df[i][col]])])

NormalizeData ==
    /\ index_pc = "normalize"
    /\ normalized_df' = normalize_data(index_merged_df, columns_to_normalize, invert_columns)
    /\ index_pc' = "index"
    /\ UNCHANGED <<population_vars, forecast_vars, download_vars, index_files, index_merged_df,
                   index_results_df, final_df, rankings_df>>

\* variant: the category score is the sum of the members
CategoryScore_Sum(row, valid_cols) ==
    SeqSum([k \in DOMAIN valid_cols |-> row[valid_cols[k]]])

\* df[valid_cols].mean(axis=1), one row
CategoryScore(row, valid_cols) ==
    RDiv(SeqSum([k \in DOMAIN valid_cols |-> row[valid_cols[k]]]), Rat(Len(valid_cols)))

\* the columns of a category that exist in the dataframe
ValidCols(row, scenario, category) ==
    SelectSeq(scenario.category_columns[category], LAMBDA col : col \in DOMAIN row)

\* result_df[index_col_name] after the first n categories of the loop
RECURSIVE WeightedSum(_, _, _)
WeightedSum(row, scenario, n) ==
    IF n = 0 THEN Rat(0)
    ELSE LET category == Categories[n]
             valid_cols == ValidCols(row, scenario, category)
             before == WeightedSum(row, scenario, n - 1)
         IN  IF valid_cols = <<>> THEN before
             ELSE RAdd(before, RMul(CategoryScore(row, valid_cols),
                                    scenario.weights[category]))

\* def calculate_index(df, scenario)
calculate_index(df, scenario) ==
    DataFrame([i \in DOMAIN df |->
        LET scored == {c \in SeqToSet(Categories) :
                          ValidCols(df[i], scenario, c) # <<>>}
        IN  (IndexColumn[scenario.name] :> WeightedSum(df[i], scenario, Len(Categories)))
            @@ [col \in {ScoreColumn[c] : c \in scored} |->
                   LET c == CHOOSE x \in scored : ScoreColumn[x] = col
                   IN  CategoryScore(df[i], ValidCols(df[i], scenario, c))]
            @@ df[i]])

\* results_df after the first n scenarios of the loop
RECURSIVE IndicesAfter(_, _)
IndicesAfter(df, n) ==
    IF n = 0 THEN df ELSE calculate_index(IndicesAfter(df, n - 1), scenarios[n])

CalculateAllIndices ==
    /\ index_pc = "index"
    /\ index_results_df' = IndicesAfter(normalized_df, Len(scenarios))
    /\ index_pc' = "save"
    /\ UNCHANGED <<population_vars, forecast_vars, download_vars, index_files, index_merged_df,
                   normalized_df, final_df, rankings_df>>

category_score_cols == {ScoreColumn[c] : c \in DOMAIN ScoreColumn}

index_cols == <<"socioeconomic_index_balanced", "socioeconomic_index_economy_focused",
                "socioeconomic_index_safety_focused",
                "socioeconomic_index_opportunity_focused">>

\* final_df = results_df[final_cols]
FinalColumns(df) ==
    DataFrame([i \in DOMAIN df |->
        Cells([col \in (SeqToSet(identity_cols) \cup category_score_cols
                        \cup SeqToSet(index_cols)) \cap DOMAIN df[i] |-> df[i][col]])])

\* final_df.to_csv(CLEANED_DIR / "socioeconomic_indices.csv"); a float is written
\* with the digits that read back as the same double
SaveIndices ==
    /\ index_pc = "save"
    /\ final_df' = FinalColumns(index_results_df)
    /\ index_files' = index_files @@ [socioeconomic_indices |-> final_df']
    /\ index_pc' = "rank"
    /\ UNCHANGED <<population_vars, forecast_vars, download_vars, index_merged_df, normalized_df,
                   index_results_df, rankings_df>>

\* variant: method='first', equal values are ranked in the order of their rows
Rank_First(values, i) ==
    LET greater == {j \in DOMAIN values : RLess(values[i], values[j])}
        before == {j \in DOMAIN values : values[j] = values[i] /\ j <= i}
    IN  Rat(Cardinality(greater) + Cardinality(before))

\* Series.rank(ascending=False): the values are put in descending order and every
\* value gets the mean of the positions that the values equal to it take
Rank(values, i) ==
    LET greater == Cardinality({j \in DOMAIN values : RLess(values[i], values[j])})
        equal == Cardinality({j \in DOMAIN values : values[j] = values[i]})
        positions == (greater + 1)..(greater + equal)
    IN  Norm(<<SumOver(positions, [p \in positions |-> p]), equal>>)

\* variant: the rows of the rankings table are put in the order of the first index
Rankings_BestFirst(df) ==
    LET Column(c) == [i \in DOMAIN df |-> df[i][c]]
        place == [i \in DOMAIN df |-> Rank_First(Column(index_cols[1]), i)[1]]
        at == [p \in DOMAIN df |-> CHOOSE i \in DOMAIN df : place[i] = p]
    IN  DataFrame([p \in DOMAIN df |->
            [col \in {RankColumn[c] : c \in SeqToSet(index_cols)} |->
                LET c == CHOOSE x \in SeqToSet(index_cols) : RankColumn[x] = col
                IN  Rank(Column(c), at[p])]
            @@ df[at[p]]])

\* rankings_df = final_df.copy() and one rank column for every index column
Rankings(df) ==
    LET Column(c) == [i \in DOMAIN df |-> df[i][c]]
    IN  DataFrame([i \in DOMAIN df |->
            [col \in {RankColumn[c] : c \in SeqToSet(index_cols)} |->
                LET c == CHOOSE x \in SeqToSet(index_cols) : RankColumn[x] = col
                IN  Rank(Column(c), i)]
            @@ df[i]])

\* the rankings and rankings_df.to_csv(rankings_path)
GenerateRankings ==
    /\ index_pc = "rank"
    /\ rankings_df' = Rankings(final_df)
    /\ index_files' = index_files @@ [socioeconomic_indices_rankings |-> rankings_df']
    /\ index_pc' = "done"
    /\ UNCHANGED <<population_vars, forecast_vars, download_vars, index_merged_df, normalized_df,
                   index_results_df, final_df>>

IndexNext ==
    \/ ReadAndMerge
    \/ NormalizeData
    \/ CalculateAllIndices
    \/ SaveIndices
    \/ GenerateRankings

IndexSpec == IndexInit /\ [][IndexNext]_vars

----------------------------------------------------------------------------
(***************************************************************************)
(* Claims about the index weights, the normalization, the indices and the  *)
(* rankings                                                                *)
(***************************************************************************)

Tolerance == <<1, 1000000000>>

RAbs(a) == IF a[1] < 0 THEN <<-a[1], a[2]>> ELSE a

\* the sum of the weights of one profile, a record of weights
WeightSum(weights) ==
    RSumOver(DOMAIN weights, weights)

SumsToOne(weights) == ~RLess(Tolerance, RAbs(RSub(WeightSum(weights), Rat(1))))

\* C15: the weights of every named profile of both index calculators sum to 1.0
\* within 1e-9, whenever either script runs.
C15_WeightsSumToOne ==
    (forecast_pc # "not started" \/ index_pc # "not started") =>
        /\ \A n \in DOMAIN scenarios : SumsToOne(scenarios[n].weights)
        /\ \A name \in DOMAIN index_weights : SumsToOne(index_weights[name])

\* the indicators of the cleaned tables for which a higher raw value is undesirable
Undesirable == {"UNEMPLOYMENT_RATE", "CRIMINAL_ACTIVITIES", "HOUSE_AFFORDABILITY"}

\* the merged table with the indicator col of row i raised by one
Raised(df, i, col) == [df EXCEPT ![i][col] = RAdd(@, Rat(1))]

\* the indices of the rows of a merged table
IndicesOf(df) ==
    IndicesAfter(normalize_data(df, columns_to_normalize, invert_columns), Len(scenarios))

\* C16: every indicator for which a higher raw value is undesirable enters each
\* index inverted (the z-scores of the unemployment rate and of the student-teacher
\* ratio with a minus sign, the min-max values of the unemployment rate, the crime
\* count and the housing-cost burden as 1 - value), so that raising such an
\* indicator for one county with all other values fixed never raises that
\* county's index under any profile.
C16_UndesirableIndicatorsNeverRaiseTheIndex ==
    /\ {"UNEMPLOYMENT_RATE", "STUDENT_TEACHER_RATIO"} \subseteq flipped_columns
    /\ index_results_df # <<>> =>
           \A i \in DOMAIN index_merged_df : \A col \in Undesirable :
               \A n \in DOMAIN scenarios :
                   LET index_col == IndexColumn[scenarios[n].name]
                   IN  ~RLess(index_results_df[i][index_col],
                              IndicesOf(Raised(index_merged_df, i, col))[i][index_col])

Selected(col) == col \in SeqToSet(columns_to_normalize)

NamedInverted(col) == col \in SeqToSet(invert_columns)

RawValues(col) == {index_merged_df[j][col] : j \in DOMAIN index_merged_df}

HoldsMinimum(i, col) == \A w \in RawValues(col) : ~RLess(w, index_merged_df[i][col])

HoldsMaximum(i, col) == \A w \in RawValues(col) : ~RLess(index_merged_df[i][col], w)

Constant(col) == Cardinality(RawValues(col)) = 1

InUnitInterval(v) == ~RLess(v, Rat(0)) /\ ~RLess(Rat(1), v)

\* the position of a raw value between the least and the largest raw value of its
\* column
Position(i, col) ==
    LET lo == CHOOSE v \in RawValues(col) : \A w \in RawValues(col) : ~RLess(w, v)
        hi == CHOOSE v \in RawValues(col) : \A w \in RawValues(col) : ~RLess(v, w)
    IN  RDiv(RSub(index_merged_df[i][col], lo), RSub(hi, lo))

\* C17 as stated: every normalized value is in [0, 1], the row holding the column
\* minimum gets 0 and the row holding the maximum gets 1 (swapped for the columns
\* named for inversion), and the columns not selected are unchanged.
C17_MinimumToZeroAndMaximumToOne ==
    normalized_df # <<>> =>
        \A i \in DOMAIN normalized_df : \A col \in DOMAIN normalized_df[i] :
            LET v == normalized_df[i][col]
            IN  IF ~Selected(col) THEN v = index_merged_df[i][col]
                ELSE /\ InUnitInterval(v)
                     /\ HoldsMinimum(i, col) => v = IF NamedInverted(col) THEN Rat(1) ELSE Rat(0)
                     /\ HoldsMaximum(i, col) => v = IF NamedInverted(col) THEN Rat(0) ELSE Rat(1)

\* C17, amended: every normalized value is in [0, 1]; in a column whose raw values
\* differ, the value of a row is the position of that row's raw value between the
\* minimum and the maximum over all rows, so the row holding the minimum gets 0
\* and the row holding the maximum gets 1 (one minus the position for the columns
\* named for inversion); a column whose raw values are all equal gets 0 in every
\* row (1 when it is named for inversion); the columns not selected are unchanged.
C17_NormalizedPositionOrConstantZero ==
    normalized_df # <<>> =>
        /\ DOMAIN normalized_df = DOMAIN index_merged_df
        /\ \A i \in DOMAIN normalized_df :
            /\ DOMAIN normalized_df[i] = DOMAIN index_merged_df[i]
            /\ \A col \in DOMAIN normalized_df[i] :
                LET v == normalized_df[i][col]
                    scaled == IF Constant(col) THEN Rat(0) ELSE Position(i, col)
                IN  IF ~Selected(col) THEN v = index_merged_df[i][col]
                    ELSE /\ InUnitInterval(v)
                         /\ v = IF NamedInverted(col) THEN RSub(Rat(1), scaled) ELSE scaled
                         /\ ~Constant(col) /\ HoldsMinimum(i, col) =>
                                v = IF NamedInverted(col) THEN Rat(1) ELSE Rat(0)
                         /\ ~Constant(col) /\ HoldsMaximum(i, col) =>
                                v = IF NamedInverted(col) THEN Rat(0) ELSE Rat(1)

\* a table normalized with a constant column, a column named for inversion whose
\* values differ, and a row strictly between the minimum and the maximum of the
\* crime counts
C17_Witness ==
    /\ normalized_df # <<>>
    /\ Constant("MEDIAN_INCOME")
    /\ ~Constant("UNEMPLOYMENT_RATE")
    /\ \E i \in DOMAIN index_merged_df :
           ~HoldsMinimum(i, "CRIMINAL_ACTIVITIES") /\ ~HoldsMaximum(i, "CRIMINAL_ACTIVITIES")

\* the arithmetic mean of the normalized members of a category in row i
MemberMean(i, category) ==
    LET members == SeqToSet(normalization_config[category])
    IN  RDiv(RSumOver(members, [col \in members |-> normalized_df[i][col]]),
             Rat(Cardinality(members)))

RankOf(i, index_col) == rankings_df[i][RankColumn[index_col]]

Larger(i, index_col) ==
    {j \in DOMAIN rankings_df : RLess(rankings_df[i][index_col], rankings_df[j][index_col])}

Tied(i, index_col) ==
    {j \in DOMAIN rankings_df : rankings_df[j][index_col] = rankings_df[i][index_col]}

Descending(index_col) ==
    \A i, j \in DOMAIN rankings_df :
        /\ RLess(rankings_df[j][index_col], rankings_df[i][index_col]) =>
               RLess(RankOf(i, index_col), RankOf(j, index_col))
        /\ rankings_df[i][index_col] = rankings_df[j][index_col] =>
               RankOf(i, index_col) = RankOf(j, index_col)

\* C19 as stated: for each composite index the row with the highest index has
\* rank 1, a strictly larger index always gets a strictly smaller rank, and rows
\* with equal index values receive identical ranks.
C19_HighestIndexHasRankOne ==
    rankings_df # <<>> =>
        \A index_col \in SeqToSet(index_cols) :
            /\ Descending(index_col)
            /\ \A i \in DOMAIN rankings_df :
                   Larger(i, index_col) = {} => RankOf(i, index_col) = Rat(1)

\* C19, amended: for each composite index a strictly larger index always gets a
\* strictly smaller rank and rows with equal index values receive identical
\* ranks, the mean of the positions they take in descending order: the rank of
\* a row is the number of rows with a larger index plus (k + 1) / 2, k the number
\* of rows with its index value.  The row with the highest index has rank 1 when
\* no other row has its value, and k rows sharing the highest index have rank
\* (k + 1) / 2 each.
C19_TiedRowsGetTheMeanPosition ==
    rankings_df # <<>> =>
        \A index_col \in SeqToSet(index_cols) :
            /\ Descending(index_col)
            /\ \A i \in DOMAIN rankings_df :
                   LET k == Cardinality(Tied(i, index_col))
                   IN  /\ RankOf(i, index_col) =
                              RAdd(Rat(Cardinality(Larger(i, index_col))), Norm(<<k + 1, 2>>))
                       /\ Larger(i, index_col) = {} /\ k = 1 => RankOf(i, index_col) = Rat(1)

\* rankings of a table in which two rows share the highest balanced index and a
\* third row has a lower one
C19_Witness ==
    /\ rankings_df # <<>>
    /\ \E i, j, l \in DOMAIN rankings_df :
           /\ i # j
           /\ Larger(i, "socioeconomic_index_balanced") = {}
           /\ j \in Tied(i, "socioeconomic_index_balanced")
           /\ i \in Larger(l, "socioeconomic_index_balanced")
           /\ RankOf(l, "socioeconomic_index_balanced") = Rat(3)

StoredIndices == index_files.socioeconomic_indices

StoredRankings == index_files.socioeconomic_indices_rankings

RankColumns == {RankColumn[index_col] : index_col \in SeqToSet(index_cols)}

\* the rank of row i of the stored index table for one index, from that table alone
RecomputedRank(i, index_col) ==
    LET larger == {j \in DOMAIN StoredIndices :
                      RLess(StoredIndices[i][index_col], StoredIndices[j][index_col])}
        tied == {j \in DOMAIN StoredIndices :
                    StoredIndices[j][index_col] = StoredIndices[i][index_col]}
    IN  Norm(<<2 * Cardinality(larger) + Cardinality(tied) + 1, 2>>)

\* C20: the stored rankings table holds the rows and columns of the stored index
\* table unchanged plus one rank column per index, and the ranks recomputed from
\* the stored index table alone are the stored ranks.
C20_RankingsAreRecomputableFromTheIndexTable ==
    index_pc = "done" =>
        /\ DOMAIN StoredRankings = DOMAIN StoredIndices
        /\ \A i \in DOMAIN StoredRankings :
            /\ DOMAIN StoredRankings[i] = DOMAIN StoredIndices[i] \cup RankColumns
            /\ RankColumns \cap DOMAIN StoredIndices[i] = {}
            /\ \A col \in DOMAIN StoredIndices[i] :
                   StoredRankings[i][col] = StoredIndices[i][col]
            /\ \A index_col \in SeqToSet(index_cols) :
                   StoredRankings[i][RankColumn[index_col]] = RecomputedRank(i, index_col)

\* both tables are stored, for counties whose balanced indices are not in
\* descending order in the table: a later row holds the highest index
C20_Witness ==
    /\ index_pc = "done"
    /\ \E i, j \in DOMAIN StoredRankings :
           /\ i < j
           /\ RLess(StoredRankings[i]["socioeconomic_index_balanced"],
                    StoredRankings[j]["socioeconomic_index_balanced"])
           /\ StoredRankings[j]["socioeconomic_index_balanced_rank"] = Rat(1)
           /\ StoredRankings[i]["socioeconomic_index_balanced_rank"] =
                  Rat(Len(StoredRankings))

----------------------------------------------------------------------------
(***************************************************************************)
(* Claims about the keys of the projected tables, the missing indicators   *)
(* and the tables a stage receives                                         *)
(***************************************************************************)

ScenarioLabels == {"Original", "S3", "S5b", "S5a", "S5c"}

\* the rows of a county in a table with the column COUNTY_FIPS
CountyRowsOf(df, county) == SelectSeq(df, LAMBDA row : zfill(row.COUNTY_FIPS, 5) = county)

FilteredCounties == {filtered_df[i].COUNTY_FIPS : i \in DOMAIN filtered_df}

\* C25: every county of the filtered table that has a row in the population
\* table contributes exactly five rows to the combined table, one per scenario
\* label of Original, S3, S5b, S5a, S5c, so (COUNTY_FIPS, SCENARIO) is a unique
\* key; a county with no projection row contributes no row, and the rows of a
\* county are the rows the function returns for that county alone.
C25_FiveRowsPerProjectedCounty ==
    ProjectionsDone =>
        /\ \A county \in FilteredCounties :
               LET rows == CountyRowsOf(all_counties_2065_combined, county)
               IN  IF HasProjection(county)
                   THEN /\ Len(rows) = 5
                        /\ {rows[i].SCENARIO : i \in DOMAIN rows} = ScenarioLabels
                        /\ forecast_pc = "derived" =>
                               rows = generate_county_projections(
                                          CountyRowsOf(filtered_df, county), pop_combined)
                   ELSE rows = <<>>
        /\ \A i, j \in DOMAIN all_counties_2065_combined :
               LET a == all_counties_2065_combined[i]
                   b == all_counties_2065_combined[j]
               IN  a.COUNTY_FIPS = b.COUNTY_FIPS /\ a.SCENARIO = b.SCENARIO => i = j
        /\ \A i \in DOMAIN all_counties_2065_combined :
               zfill(all_counties_2065_combined[i].COUNTY_FIPS, 5) \in FilteredCounties

\* the projections of two counties, one with a row in the population table and
\* one without
C25_Witness ==
    /\ forecast_pc = "derived"
    /\ Len(all_counties_2065_combined) = 5
    /\ \E c, d \in FilteredCounties : HasProjection(c) /\ ~HasProjection(d)

\* a row of the combined table that has no value in an indicator of the index
LacksIndicator(row) == \E k \in DOMAIN cols : IsNaN(row[cols[k]])

\* C22: a county that lacks one of the indicators of the projected index (the
\* unemployment rate, the student-teacher ratio, the available housing units) has
\* no row in the projected index table, gets no value put in place of the
\* missing one, and keeps its rows in the combined table that is saved.
C22_CountiesLackingAnIndicatorAreExcluded ==
    forecast_pc \in {"save results", "done"} =>
        \A i \in DOMAIN all_counties_2065_combined :
            LET row == all_counties_2065_combined[i]
            IN  LacksIndicator(row) =>
                    /\ ~InResults(row)
                    /\ \E j \in DOMAIN forecast_files.combined_2065_data :
                           forecast_files.combined_2065_data[j] = row

\* C23: no stage modifies a table it receives: when generate_county_projections,
\* calculate_derived_metrics and calculate_indices return, the tables passed to
\* them hold the values they held before the call.
C23_StagesLeaveTheirInputsUnchanged ==
    [][/\ GenerateCountyProjections => UNCHANGED <<filtered_df, pop_combined>>
       /\ CalculateDerivedMetrics => UNCHANGED <<all_counties_2065_combined, merged_df>>
       /\ CalculateIndices => UNCHANGED all_counties_2065_combined]_vars

----------------------------------------------------------------------------
(* Claims about the allocation of the projected population *)

\* the regional populations of one scenario, summed over the regions of the
\* merged table (all five when every region has a county)
RegionalSum(c) ==
    SumOver(DOMAIN climate_region_populations,
            [r \in DOMAIN climate_region_populations |-> climate_region_populations[r][c]])

StrictlyBetween0And100(q) == RLess(Rat(0), q) /\ RLess(q, Rat(1))

\* C27: with the shipped share table every share generated for the factors
\* 0.5, 1.0 and 2.0 lies strictly between 0 and 100 percent, and every
\* regional and every county population of every scenario is non-negative.
C27_ShippedSharesStayPositive ==
    qf_2065_regional_population_shares = ShippedShares =>
        /\ VariationsDone =>
               /\ \A c \in DOMAIN IntensityFactor, r \in Regions :
                      StrictlyBetween0And100(alternate_scenario_5_pop_shares[c][r])
               /\ \A r \in DOMAIN climate_region_populations, c \in ScenarioColumns :
                      climate_region_populations[r][c] >= 0
        /\ CountiesDone =>
               \A i \in Rows, c \in ScenarioColumns :
                   us_county_population_projections[i][c] >= 0
        /\ \A i \in DOMAIN output_file, c \in ScenarioColumns : output_file[i][c] >= 0

\* the shipped table, a county of the Midwest, whose share falls under the
\* climate scenario, and the double effect still leaving it a population
C27_Witness ==
    /\ pc = "done"
    /\ qf_2065_regional_population_shares = ShippedShares
    /\ RLess(ClimateEffect("Midwest"), Rat(0))
    /\ \E i \in Rows :
           /\ CLIMATE_REGION[i] = "Midwest"
           /\ output_file[i]["POPULATION_2065_S5c"] > 0
           /\ output_file[i]["POPULATION_2065_S5c"] < output_file[i]["POPULATION_2065_S3"]

----------------------------------------------------------------------------
(* Either script of the pipeline is run on its input files *)

PipelineInit == Init \/ ForecastInit

PipelineNext == Next \/ ForecastNext

PipelineSpec == PipelineInit /\ [][PipelineNext]_vars

\* the rows of a table in the opposite order
Reverse(s) == [i \in DOMAIN s |-> s[Len(s) + 1 - i]]

\* the two tables indicator_forecasting.py writes, from the three tables it reads
ForecastTables(merged, filtered, population) ==
    LET combined ==
            calculate_derived_metrics(generate_county_projections(filtered, population),
                                      merged)
    IN  [combined_2065_data |-> combined,
         projected_socioeconomic_indices |-> calculate_indices(combined)]

\* one cell of county_population_projections.csv, from the share table and the
\* county file alone; the regional total is a sum over a set of rows
ProjectionCell(i, c) ==
    LET region == MapClimateRegion(us_county_data[i].STATE_NAME)
        members == {j \in Rows : MapClimateRegion(us_county_data[j].STATE_NAME) = region}
        region_2010 == SumOver(members, [j \in Rows |-> us_county_data[j].POPULATION_2010])
        column == CHOOSE x \in DOMAIN RenamedColumn : RenamedColumn[x] = c
        effect == [r \in Regions |-> RMul(ClimateEffect(r), IntensityFactor[column])]
        regional ==
            IF c = "POPULATION_2065_S1" THEN ShareToPopulation(QfShare("Scenario_1", region))
            ELSE IF c = "POPULATION_2065_S3"
                 THEN ShareToPopulation(QfShare("Scenario_3", region))
            ELSE AlternateToPopulation(
                     RDiv(generate_scenario_5_variations(effect)[region], Rat(100)))
    IN  CountyPopulation(regional,
                         RDiv(Rat(us_county_data[i].POPULATION_2010), Rat(region_2010)))

----------------------------------------------------------------------------
(***************************************************************************)
(* Part 4: src/preprocessing/acquisition/download_raw_data.py              *)
(***************************************************************************)

(* The run of download_all_data() over one census dataset and one Data     *)
(* Commons dataset of county level.  Every future of a thread pool is a    *)
(* thread of its own: the pools hold more workers than the model has tasks.*)

CensusDataset == "POPULATION"

DataCommonsDataset == "FEMA_NRI"

Datasets == {CensusDataset, DataCommonsDataset}

\* CONFIG["DATASETS"][dataset]["YEARS"], cut to the first MaxYears years
YEARS(dataset) ==
    LET first == IF dataset = CensusDataset THEN 2010 ELSE 2021
    IN  <<first, first + MaxYears - 1>>

\* def _get_years_from_range(year_range): list(range(a, b + 1))
_get_years_from_range(year_range) == year_range[1]..year_range[2]

\* CONFIG["DATASETS"][dataset]["VARIABLES"] of the Data Commons dataset
variable == "FemaNaturalHazardRiskIndex_NaturalHazardImpact"

\* county_tasks: (state_fips, county_fips) of the counties of the contiguous states
county_tasks ==
    SubSeq(<<<<"01", "001">>, <<"04", "001">>, <<"04", "003">>, <<"06", "001">>>>,
           1, MaxGeos)

Geos == DOMAIN county_tasks

\* A key of the series the API returns is a date string, "2021" or "2021-03":
\* the record holds its first four characters as a number and the month, 0
\* for a key of four characters.
DataPoint(year, month, value) == [year |-> year, month |-> month, value |-> value]

\* a series with one value for every year of the range
FullSeries(k) ==
    [i \in 1..MaxYears |-> DataPoint(YEARS(DataCommonsDataset)[1] + i - 1, 0, 10 * k + i)]

\* a series with a value before the range and two monthly values of the first year
MonthlySeries(k) ==
    LET first == YEARS(DataCommonsDataset)[1]
    IN  <<DataPoint(first - 1, 0, 10 * k + 1), DataPoint(first, 1, 10 * k + 2),
          DataPoint(first, 2, 10 * k + 3)>>

\* what the API holds for the geographies: values differ between geographies
\* and between the points of a series
ResponseTables ==
    {[k \in Geos |-> FullSeries(k)],
     [k \in Geos |-> IF k = 1 THEN MonthlySeries(k) ELSE FullSeries(k)],
     [k \in Geos |-> <<>>]}

\* one CSV file for every year of every dataset
FileKeys == UNION {{<<d, y>> : y \in _get_years_from_range(YEARS(d))} : d \in Datasets}

\* a file under data/raw: absent, present before the run, or written by the run
Missing == [status |-> "missing", rows |-> <<>>]

Existing == [status |-> "existing", rows |-> <<>>]

Written(rows) == [status |-> "written", rows |-> rows]

\* the files a run may find: none, the first years, or all years of a dataset
ExistingYears(dataset) ==
    {YEARS(dataset)[1]..(YEARS(dataset)[1] + n - 1) : n \in 0..MaxYears}

\* a future that has not been submitted, and the states of a future that has ended
Future(state) == [state |-> state, attempts |-> 0, api_calls |-> 0]

Completed == {"skipped", "saved", "failed", "finished", "done"}

DownloadInit ==
    /\ PopulationNotStarted
    /\ ForecastNotStarted
    /\ IndexNotStarted
    /\ download_pc = "start"
    /\ network \in {"up", "down"}
    /\ stat_series \in ResponseTables
    /\ \E census \in ExistingYears(CensusDataset),
          commons \in ExistingYears(DataCommonsDataset) :
           raw_files =
               [f \in FileKeys |->
                   IF \/ f[1] = CensusDataset /\ f[2] \in census
                      \/ f[1] = DataCommonsDataset /\ f[2] \in commons
                   THEN Existing ELSE Missing]
    /\ dataset_thread = [d \in Datasets |-> "unsubmitted"]
    /\ year_task = [y \in _get_years_from_range(YEARS(CensusDataset)) |->
                       Future("unsubmitted")]
    /\ existing_files = {}
    /\ all_data = <<>>
    /\ geo_worker = [k \in Geos |-> Future("unsubmitted") @@ [todo |-> <<>>, key_errors |-> 0]]

\* variant: the file is never found
exists_Never(files, dataset, year) == FALSE

\* output_file.exists(), and a match of output_dir.glob(...)
exists(files, dataset, year) == files[<<dataset, year>>].status # "missing"

\* variant: concurrent.futures.wait(futures, return_when=FIRST_COMPLETED)
wait_FirstCompleted(states) == states \cap Completed # {}

\* concurrent.futures.wait(futures), and the loop over as_completed(futures)
wait(states) == states \subseteq Completed

\* def download_all_data(self): executor.submit(self._download_dataset, dataset)
DownloadAllData ==
    /\ download_pc = "start"
    /\ dataset_thread' = [d \in Datasets |-> "submitted"]
    /\ download_pc' = "wait"
    /\ UNCHANGED <<population_vars, forecast_vars, index_vars, network, stat_series,
                   raw_files, year_task, existing_files, all_data, geo_worker>>

\* def _download_dataset(self, dataset) of a census dataset: one future per year
DownloadDataset ==
    /\ dataset_thread[CensusDataset] = "submitted"
    /\ year_task' = [y \in DOMAIN year_task |-> [year_task[y] EXCEPT !.state = "submitted"]]
    /\ dataset_thread' = [dataset_thread EXCEPT ![CensusDataset] = "waiting"]
    /\ UNCHANGED <<population_vars, forecast_vars, index_vars, download_pc, network,
                   stat_series, raw_files, existing_files, all_data, geo_worker>>

\* df of ced.download(...) as written by df.to_csv(output_file, index=False)
CensusRows(dataset, year) == <<[dataset |-> dataset, year |-> year]>>

\* def _download_single_dataset_year(self, dataset, year): an existing file
\* is skipped; an exception of the download is printed
DownloadSingleDatasetYear(year) ==
    LET found == exists(raw_files, CensusDataset, year)
        task == [year_task[year] EXCEPT !.attempts = @ + 1]
    IN  /\ year_task[year].state = "submitted"
        /\ IF found
           THEN /\ year_task' = [year_task EXCEPT ![year] = [task EXCEPT !.state = "skipped"]]
                /\ UNCHANGED raw_files
           ELSE IF network = "up"
           THEN /\ year_task' =
                       [year_task EXCEPT
                           ![year] = [task EXCEPT !.state = "saved", !.api_calls = @ + 1]]
                /\ raw_files' =
                       [raw_files EXCEPT
                           ![<<CensusDataset, year>>] = Written(CensusRows(CensusDataset, year))]
           ELSE /\ year_task' =
                       [year_task EXCEPT
                           ![year] = [task EXCEPT !.state = "failed", !.api_calls = @ + 1]]
                /\ UNCHANGED raw_files
        /\ UNCHANGED <<population_vars, forecast_vars, index_vars, download_pc, network,
                       stat_series, dataset_thread, existing_files, all_data, geo_worker>>

\* concurrent.futures.wait(futures) of _download_dataset returns
DatasetDownloaded ==
    /\ dataset_thread[CensusDataset] = "waiting"
    /\ wait({year_task[y].state : y \in DOMAIN year_task})
    /\ dataset_thread' = [dataset_thread EXCEPT ![CensusDataset] = "done"]
    /\ UNCHANGED <<population_vars, forecast_vars, index_vars, download_pc, network,
                   stat_series, raw_files, year_task, existing_files, all_data, geo_worker>>

\* def _download_datacommons_dataset(self, dataset), up to the submission of
\* the workers: nothing is done when a file exists for every year
DownloadDataCommonsDataset ==
    LET years_range == _get_years_from_range(YEARS(DataCommonsDataset))
        found == {y \in years_range : exists(raw_files, DataCommonsDataset, y)}
    IN  /\ dataset_thread[DataCommonsDataset] = "submitted"
        /\ existing_files' = found
        /\ IF \A y \in years_range : y \in found
           THEN /\ dataset_thread' = [dataset_thread EXCEPT ![DataCommonsDataset] = "done"]
                /\ UNCHANGED <<all_data, geo_worker>>
           ELSE /\ all_data' = [y \in years_range \ found |-> <<>>]
                /\ geo_worker' =
                       [k \in Geos |-> [geo_worker[k] EXCEPT !.state = "submitted"]]
                /\ dataset_thread' =
                       [dataset_thread EXCEPT ![DataCommonsDataset] = "waiting"]
        /\ UNCHANGED <<population_vars, forecast_vars, index_vars, download_pc, network,
                       stat_series, raw_files, year_task>>

\* def _fetch_datacommons_for_geo(...): data = dc.get_stat_series(geo_id, variable);
\* an exception ends the worker in its except clause
GetStatSeries(k) ==
    LET worker == [geo_worker[k] EXCEPT !.attempts = @ + 1, !.api_calls = @ + 1]
    IN  /\ geo_worker[k].state = "submitted"
        /\ geo_worker' =
               [geo_worker EXCEPT
                   ![k] = IF network = "down" THEN [worker EXCEPT !.state = "failed"]
                          ELSE IF stat_series[k] = <<>>
                          THEN [worker EXCEPT !.state = "finished"]
                          ELSE [worker EXCEPT !.state = "fetched", !.todo = stat_series[k]]]
        /\ UNCHANGED <<population_vars, forecast_vars, index_vars, download_pc, network,
                       stat_series, raw_files, dataset_thread, year_task, existing_files,
                       all_data>>

\* variant: the year is not compared with the files that exist
InRangeAndMissing_InRange(year_int, years_range, existing) == year_int \in years_range

\* year_int in years_range and year_int not in existing_files
InRangeAndMissing(year_int, years_range, existing) ==
    year_int \in years_range /\ year_int \notin existing

\* entry = {"STATE": state, variable: value}; entry["COUNTY"] = county
Entry(state, county, value) ==
    ("STATE" :> state) @@ ("COUNTY" :> county) @@ (variable :> value)

\* one pass of the loop over data.items(): the entry of a year in range
\* without a file is appended to all_data[year_int]; list.append is atomic,
\* and a missing key raises KeyError in the appending thread
ProcessDataPoint(k) ==
    LET point == Head(geo_worker[k].todo)
        year_int == point.year
        rest == Tail(geo_worker[k].todo)
        entry == Entry(county_tasks[k][1], county_tasks[k][2], point.value)
        worker == [geo_worker[k] EXCEPT
                      !.todo = rest,
                      !.state = IF rest = <<>> THEN "finished" ELSE "fetched"]
    IN  /\ geo_worker[k].state = "fetched"
        /\ IF ~InRangeAndMissing(year_int,
                                 _get_years_from_range(YEARS(DataCommonsDataset)),
                                 existing_files)
           THEN /\ geo_worker' = [geo_worker EXCEPT ![k] = worker]
                /\ UNCHANGED all_data
           ELSE IF year_int \in DOMAIN all_data
           THEN /\ all_data' = [all_data EXCEPT ![year_int] = Append(@, entry)]
                /\ geo_worker' = [geo_worker EXCEPT ![k] = worker]
           ELSE /\ geo_worker' =
                       [geo_worker EXCEPT ![k] = [worker EXCEPT !.key_errors = @ + 1]]
                /\ UNCHANGED all_data
        /\ UNCHANGED <<population_vars, forecast_vars, index_vars, download_pc, network,
                       stat_series, raw_files, dataset_thread, year_task, existing_files>>

\* the end of _download_datacommons_dataset: after the pool has shut down, one
\* CSV file for every year of all_data that has entries
SaveYearFiles ==
    /\ dataset_thread[DataCommonsDataset] = "waiting"
    /\ wait({geo_worker[k].state : k \in Geos})
    /\ raw_files' =
           [f \in FileKeys |->
               IF /\ f[1] = DataCommonsDataset
                  /\ f[2] \in DOMAIN all_data
                  /\ all_data[f[2]] # <<>>
               THEN Written(all_data[f[2]]) ELSE raw_files[f]]
    /\ dataset_thread' = [dataset_thread EXCEPT ![DataCommonsDataset] = "done"]
    /\ UNCHANGED <<population_vars, forecast_vars, index_vars, download_pc, network,
                   stat_series, year_task, existing_files, all_data, geo_worker>>

\* concurrent.futures.wait(futures) of download_all_data returns
DownloadAllDataReturns ==
    /\ download_pc = "wait"
    /\ wait({dataset_thread[d] : d \in Datasets})
    /\ download_pc' = "returned"
    /\ UNCHANGED <<population_vars, forecast_vars, index_vars, network, stat_series,
                   raw_files, dataset_thread, year_task, existing_files, all_data,
                   geo_worker>>

\* the environment: a network failure ends while the script runs
FailureClears ==
    /\ download_pc \in {"start", "wait"}
    /\ network = "down"
    /\ network' = "up"
    /\ UNCHANGED <<population_vars, forecast_vars, index_vars, download_pc, stat_series,
                   raw_files, dataset_thread, year_task, existing_files, all_data,
                   geo_worker>>

DownloadNext ==
    \/ DownloadAllData
    \/ DownloadDataset
    \/ \E year \in DOMAIN year_task : DownloadSingleDatasetYear(year)
    \/ DatasetDownloaded
    \/ DownloadDataCommonsDataset
    \/ \E k \in Geos : GetStatSeries(k)
    \/ \E k \in Geos : ProcessDataPoint(k)
    \/ SaveYearFiles
    \/ DownloadAllDataReturns
    \/ FailureClears

DownloadSpec == DownloadInit /\ [][DownloadNext]_vars

\* every thread that can take a step takes one, and a failure that can clear clears
DownloadFairSpec == DownloadSpec /\ WF_vars(DownloadNext)

----------------------------------------------------------------------------
(* Claims about download_raw_data.py *)

CensusYears == _get_years_from_range(YEARS(CensusDataset))

DataCommonsYears == _get_years_from_range(YEARS(DataCommonsDataset))

CensusFile(year) == raw_files[<<CensusDataset, year>>]

DataCommonsFile(year) == raw_files[<<DataCommonsDataset, year>>]

\* the number of points of its series worker k has passed
Processed(k) ==
    IF geo_worker[k].state \in {"fetched", "finished"}
    THEN Len(stat_series[k]) - Len(geo_worker[k].todo) ELSE 0

\* the entry of point i of the series of geography k
OwnEntry(k, i) == Entry(county_tasks[k][1], county_tasks[k][2], stat_series[k][i].value)

\* the year of the point is in the range and no file of the year was found
Wanted(k, i) ==
    /\ stat_series[k][i].year \in DataCommonsYears
    /\ DataCommonsFile(stat_series[k][i].year).status # "existing"

Count(s, e) == Cardinality({j \in DOMAIN s : s[j] = e})

\* C28: in every state of every interleaving of the workers, the entry of a
\* passed point whose year is in range and has no file is once in the list
\* of its year and in no other list, no other entry is in any list, no
\* append has met a missing key, and a file of the dataset is written only
\* when every worker has ended.
C28_EveryPointIsAppendedOnceToItsYear ==
    /\ \A k \in Geos : \A i \in DOMAIN stat_series[k] :
           /\ (i <= Processed(k) /\ Wanted(k, i))
                  => stat_series[k][i].year \in DOMAIN all_data
           /\ \A y \in DOMAIN all_data :
                  Count(all_data[y], OwnEntry(k, i))
                      = IF i <= Processed(k) /\ Wanted(k, i) /\ y = stat_series[k][i].year
                        THEN 1 ELSE 0
    /\ \A y \in DOMAIN all_data : \A j \in DOMAIN all_data[y] :
           \E k \in Geos : \E i \in DOMAIN stat_series[k] : all_data[y][j] = OwnEntry(k, i)
    /\ \A k \in Geos : geo_worker[k].key_errors = 0
    /\ \A y \in DataCommonsYears :
           DataCommonsFile(y).status = "written"
               => /\ \A k \in Geos : geo_worker[k].state \in {"finished", "failed"}
                  /\ DataCommonsFile(y).rows = all_data[y]

\* two workers have appended to the list of one year, the second geography
\* first, a file of another year exists and is left alone, and the list is saved
C28_Witness ==
    /\ download_pc = "returned"
    /\ existing_files # {}
    /\ \E y \in DataCommonsYears :
           /\ DataCommonsFile(y).status = "written"
           /\ Len(DataCommonsFile(y).rows) >= 2
           /\ DataCommonsFile(y).rows[1] = OwnEntry(2, 2)
           /\ \E j \in DOMAIN DataCommonsFile(y).rows :
                  DataCommonsFile(y).rows[j]["STATE"] = county_tasks[1][1]

\* C29: no task is attempted twice; when download_all_data has returned,
\* every (dataset, year) task of the census dataset has been attempted once
\* and has ended, a task that met no exception has saved its file whatever
\* happened to the others, and every dataset thread and worker has ended.
C29_EveryTaskRunsOnceAndTheRunWaitsForAll ==
    /\ \A y \in CensusYears : year_task[y].attempts <= 1
    /\ \A k \in Geos : geo_worker[k].attempts <= 1
    /\ download_pc = "returned" =>
           /\ \A y \in CensusYears :
                  /\ year_task[y].attempts = 1
                  /\ year_task[y].state \in {"skipped", "saved", "failed"}
                  /\ year_task[y].state = "saved"
                         => CensusFile(y) = Written(CensusRows(CensusDataset, y))
                  /\ year_task[y].state = "skipped" => CensusFile(y) = Existing
                  /\ year_task[y].state = "failed" => CensusFile(y) = Missing
           /\ \A d \in Datasets : dataset_thread[d] = "done"
           /\ \A k \in Geos :
                  IF DataCommonsYears \subseteq existing_files
                  THEN geo_worker[k].state = "unsubmitted"
                  ELSE geo_worker[k].attempts = 1
                       /\ geo_worker[k].state \in {"finished", "failed"}

\* one task has failed, another has saved its file after it, and a worker
\* has failed while another has delivered its entries
C29_Witness ==
    /\ download_pc = "returned"
    /\ \E y, z \in CensusYears :
           year_task[y].state = "failed" /\ year_task[z].state = "saved"
    /\ \E k, l \in Geos :
           /\ geo_worker[k].state = "failed"
           /\ geo_worker[l].state = "finished"
           /\ \E y \in DataCommonsYears : DataCommonsFile(y).status = "written"

AllFilesExist == \A f \in FileKeys : raw_files[f] = Existing

\* C30: a census task whose file exists makes no API call, no worker calls
\* the API when the Data Commons dataset has a file for every year, a file
\* that exists is never changed, and the only change of a file is the
\* writing of a missing one; so a run that finds every file calls no API.
C30_ExistingFilesAreNeitherFetchedNorOverwritten ==
    /\ [](\A y \in CensusYears :
              CensusFile(y) = Existing => year_task[y].api_calls = 0)
    /\ []((\A y \in DataCommonsYears : DataCommonsFile(y) = Existing)
              => \A k \in Geos : geo_worker[k].api_calls = 0)
    /\ [](AllFilesExist =>
              /\ \A y \in CensusYears : year_task[y].api_calls = 0
              /\ \A k \in Geos : geo_worker[k].api_calls = 0)
    /\ [][\A f \in FileKeys :
              /\ raw_files[f] = Existing => raw_files'[f] = Existing
              /\ raw_files'[f] # raw_files[f]
                     => raw_files[f] = Missing /\ raw_files'[f].status = "written"]_vars

\* a run that has skipped the first census year and fetched the second, and
\* has written the missing year of the Data Commons dataset beside the file
\* that was there
C30_Witness ==
    /\ download_pc = "returned"
    /\ \E y, z \in CensusYears :
           /\ year_task[y].state = "skipped" /\ year_task[y].api_calls = 0
           /\ CensusFile(y) = Existing
           /\ year_task[z].state = "saved" /\ year_task[z].api_calls = 1
    /\ \E y, z \in DataCommonsYears :
           /\ DataCommonsFile(y) = Existing
           /\ DataCommonsFile(z).status = "written"

\* C24: a census task that has failed while the network was down saves its
\* file once the failure has cleared during the run, and a worker that has
\* failed delivers its series once the failure has cleared.
C24_FailedTasksAreRetried ==
    /\ \A y \in CensusYears :
           (year_task[y].state = "failed" /\ network = "up" /\ download_pc = "wait")
               ~> (CensusFile(y).status = "written")
    /\ \A k \in Geos :
           (geo_worker[k].state = "failed" /\ network = "up" /\ download_pc = "wait")
               ~> (geo_worker[k].state = "finished")

====
